---- MODULE Spec2Model ----
(***************************************************************************)
(* A model of the Avalon game engine (AvalonGame), its per-viewer state    *)
(* filter and the operations that drive it.                                *)
(*                                                                         *)
(* The engine state g.state is one record.  Go values with reference       *)
(* semantics are modelled by what sharing them does:                       *)
(*   - Players is a slice; a struct copy of the state shares its backing   *)
(*     array, so a write through the copy is a write to g.state.Players;   *)
(*   - CurrentQuest is a pointer (<<>> is nil, <<q>> points to q);         *)
(*   - Votes is a map (<<>> is the nil map, <<m>> a map with contents m);  *)
(*     VotesShared says that the quest tracker entry of the current round  *)
(*     and *CurrentQuest hold the same map object.                         *)
(***************************************************************************)
EXTENDS Integers, Sequences, FiniteSets, TLC

(* ------------------------------------------------------------------ *)
(* Program constants                                                   *)
(* ------------------------------------------------------------------ *)
RoleMerlin == "merlin"
RolePercival == "percival"
RoleLoyal == "loyal"
RoleMorgana == "morgana"
RoleMordred == "mordred"
RoleAssassin == "assassin"
RoleOberon == "oberon"
RoleMinion == "minion"
MerlinOrMorgana == "merlin_or_morgana"

TeamGood == "good"
TeamEvil == "evil"

ActionSelectQuest == "select_quest"
ActionVoteQuest == "vote_quest"
ActionPerformQuest == "perform_quest"
ActionAssassinateMerlin == "assassinate_merlin"

MinPlayers == 5
MaxPlayers == 10
VoteTrackLimit == 5
QuestsToWin == 3
NumQuests == 5

(* Outcome of a call that did not return: a Go run-time panic. *)
Panic == "panic"
NoError == ""

(* ------------------------------------------------------------------ *)
(* Small helpers for Go values                                         *)
(* ------------------------------------------------------------------ *)
EmptyMap == << >>
NilMap == << >>
MakeMap == << EmptyMap >>
NilQuest == << >>

(* len(m) of a map value, nil included *)
MapLen(votes) == IF votes = NilMap THEN 0 ELSE Cardinality(DOMAIN votes[1])

(* _, ok := m[k], nil included *)
MapHas(votes, k) == votes # NilMap /\ k \in DOMAIN votes[1]

(* m[k] = v on a non-nil map *)
MapPut(votes, k, v) ==
    << [x \in (DOMAIN votes[1]) \cup {k} |-> IF x = k THEN v ELSE votes[1][x]] >>

(* the ids of the players, in slice order *)
PlayerIDs(n) == [i \in 1..n |-> i]

(* ------------------------------------------------------------------ *)
(* getQuestRequirements                                                *)
(* ------------------------------------------------------------------ *)
QuestRequirement(pc, q1, q2, q3, q4, q5, f4) ==
    [PlayerCount |-> pc, QuestPlayers |-> <<q1, q2, q3, q4, q5>>,
     FailsRequiredForQuest4 |-> f4]

getQuestRequirements ==
    << QuestRequirement(5, 2, 3, 2, 3, 3, 1),
       QuestRequirement(6, 2, 3, 4, 3, 4, 1),
       QuestRequirement(7, 2, 3, 3, 4, 4, 2),
       QuestRequirement(8, 3, 4, 4, 5, 5, 2),
       QuestRequirement(9, 3, 4, 4, 5, 5, 2),
       QuestRequirement(10, 3, 4, 4, 5, 5, 2) >>

(* the first requirement whose PlayerCount matches, the zero value if none *)
findRequirement(playerCount) ==
    LET hits == {k \in 1..Len(getQuestRequirements) :
                    getQuestRequirements[k].PlayerCount = playerCount}
    IN IF hits = {} THEN QuestRequirement(0, 0, 0, 0, 0, 0, 0)
       ELSE getQuestRequirements[CHOOSE k \in hits : \A k2 \in hits : k <= k2]

initQuestTracker(playerCount) ==
    LET questReq == findRequirement(playerCount)
    IN [r \in 1..NumQuests |->
          [Round |-> r, RequiredPlayers |-> questReq.QuestPlayers[r],
           SelectedPlayers |-> << >>, Votes |-> NilMap, Results |-> << >>,
           Status |-> "pending"]]

(* ------------------------------------------------------------------ *)
(* shuffle and assignRoles                                             *)
(* ------------------------------------------------------------------ *)
(* slice is a 1-based sequence holding the Go slice; position i of the *)
(* Go slice is slice[i + 1].  draws[i] is the value rand.Intn(i + 1)   *)
(* returned in the iteration with loop index i.                        *)
Swap(slice, i, j) ==
    [slice EXCEPT ![i + 1] = slice[j + 1], ![j + 1] = slice[i + 1]]

RECURSIVE shuffleFrom(_, _, _)
shuffleFrom(slice, i, draws) ==
    IF i <= 0 THEN slice
    ELSE shuffleFrom(Swap(slice, i, draws[i]), i - 1, draws)

shuffle(slice, draws) == shuffleFrom(slice, Len(slice) - 1, draws)

(* mutant: the evil head count without the cases for 9 and 10 players *)
evilCountFor_ThirdOnly(playerCount) == playerCount \div 3

evilCountFor(playerCount) ==
    IF playerCount = 9 THEN 3
    ELSE IF playerCount = 10 THEN 4
    ELSE playerCount \div 3

SetRole(players, idx, role, team) ==
    [players EXCEPT ![idx + 1].Role = role, ![idx + 1].Team = team]

RECURSIVE SetRoles(_, _, _, _)
SetRoles(players, idxs, role, team) ==
    IF idxs = << >> THEN players
    ELSE SetRoles(SetRole(players, Head(idxs), role, team), Tail(idxs), role, team)

assignRoles(players, options, draws) ==
    LET playerCount == Len(players)
        evilCount == evilCountFor(playerCount)
        indices == shuffle([i \in 1..playerCount |-> i - 1], draws)
        good0 == SubSeq(indices, 1, playerCount - evilCount)
        evil0 == SubSeq(indices, playerCount - evilCount + 1, playerCount)
        useMerlin == options.EnableMerlin /\ Len(good0) > 0
        p1 == IF useMerlin THEN SetRole(players, good0[1], RoleMerlin, TeamGood) ELSE players
        good1 == IF useMerlin THEN Tail(good0) ELSE good0
        usePercival == options.EnablePercival /\ Len(good1) > 0
        p2 == IF usePercival THEN SetRole(p1, good1[1], RolePercival, TeamGood) ELSE p1
        good2 == IF usePercival THEN Tail(good1) ELSE good1
        p3 == SetRoles(p2, good2, RoleLoyal, TeamGood)
        p4 == SetRole(p3, evil0[1], RoleAssassin, TeamEvil)
        evil1 == Tail(evil0)
        useMorgana == options.EnableMorgana /\ Len(evil1) > 0
        p5 == IF useMorgana THEN SetRole(p4, evil1[1], RoleMorgana, TeamEvil) ELSE p4
        evil2 == IF useMorgana THEN Tail(evil1) ELSE evil1
        useMordred == options.EnableMordred /\ Len(evil2) > 0
        p6 == IF useMordred THEN SetRole(p5, evil2[1], RoleMordred, TeamEvil) ELSE p5
        evil3 == IF useMordred THEN Tail(evil2) ELSE evil2
        useOberon == options.EnableOberon /\ Len(evil3) > 0
        p7 == IF useOberon THEN SetRole(p6, evil3[1], RoleOberon, TeamEvil) ELSE p6
        evil4 == IF useOberon THEN Tail(evil3) ELSE evil3
    IN SetRoles(p7, evil4, RoleMinion, TeamEvil)

(* ------------------------------------------------------------------ *)
(* Init                                                                *)
(* ------------------------------------------------------------------ *)
(* ids: the ids of the room's players in order; leaderDraw: the value  *)
(* of rand.Intn(len(players)); draws: the draws of the shuffle.        *)
InitState(ids, options, leaderDraw, draws) ==
    LET players0 == [i \in 1..Len(ids) |->
                        [ID |-> ids[i], Role |-> "", Team |-> "",
                         IsLeader |-> (i - 1 = leaderDraw)]]
    IN [Players |-> assignRoles(players0, options, draws),
        CurrentRound |-> 1,
        Leader |-> leaderDraw,
        QuestTracker |-> initQuestTracker(Len(ids)),
        CurrentQuest |-> NilQuest,
        VotesShared |-> FALSE,
        VoteTrack |-> 0,
        GameOver |-> FALSE,
        WinningTeam |-> "",
        Winners |-> << >>,
        Phase |-> "quest_selection",
        Options |-> options]

(* ------------------------------------------------------------------ *)
(* Private helpers of the engine                                       *)
(* ------------------------------------------------------------------ *)
(* the 0-based index of the first player with this id, -1 if none *)
findPlayerIndex(st, playerID) ==
    LET hits == {i \in 1..Len(st.Players) : st.Players[i].ID = playerID}
    IN IF hits = {} THEN -1
       ELSE (CHOOSE i \in hits : \A i2 \in hits : i <= i2) - 1

(* mutant: the old leader keeps the token *)
advanceLeader_KeepsOldLeader(st) ==
    LET next == (st.Leader + 1) % Len(st.Players)
    IN [st EXCEPT !.Players[next + 1].IsLeader = TRUE, !.Leader = next]

advanceLeader(st) ==
    LET next == (st.Leader + 1) % Len(st.Players)
        cleared == [st.Players EXCEPT ![st.Leader + 1].IsLeader = FALSE]
    IN [st EXCEPT !.Players = [cleared EXCEPT ![next + 1].IsLeader = TRUE],
                  !.Leader = next]

(* mutant: the next round keeps the leader *)
advanceRound_KeepsLeader(st) ==
    [st EXCEPT !.CurrentRound = st.CurrentRound + 1,
               !.CurrentQuest = NilQuest,
               !.VotesShared = FALSE,
               !.VoteTrack = 0,
               !.Phase = "quest_selection"]

advanceRound(st) ==
    LET s1 == [st EXCEPT !.CurrentRound = st.CurrentRound + 1,
                         !.CurrentQuest = NilQuest,
                         !.VotesShared = FALSE,
                         !.VoteTrack = 0]
    IN [advanceLeader(s1) EXCEPT !.Phase = "quest_selection"]

RECURSIVE idsOfTeam(_, _)
idsOfTeam(players, team) ==
    IF players = << >> THEN << >>
    ELSE (IF Head(players).Team = team THEN << Head(players).ID >> ELSE << >>)
         \o idsOfTeam(Tail(players), team)

setWinners(st, winningTeam) ==
    [st EXCEPT !.Winners = idsOfTeam(st.Players, winningTeam)]

(* what a handler returns: the engine state it leaves and its error *)
Ret(st, err) == [state |-> st, err |-> err]

(* ------------------------------------------------------------------ *)
(* handleQuestSelection                                                *)
(* ------------------------------------------------------------------ *)
(* mutant: the length of the team list is not checked *)
handleQuestSelection_SkipsSizeCheck(st, playerID, payload) ==
    IF st.Phase # "quest_selection" THEN Ret(st, "not in quest selection phase")
    ELSE
    LET playerIndex == findPlayerIndex(st, playerID) IN
    IF playerIndex = -1 \/ ~st.Players[playerIndex + 1].IsLeader
    THEN Ret(st, "only the leader can select quest team")
    ELSE
    LET currentQuest == st.QuestTracker[st.CurrentRound]
        selected == payload.selected_players
    IN
    IF \E k \in 1..Len(selected) : findPlayerIndex(st, selected[k]) = -1
    THEN Ret(st, "invalid player selected")
    ELSE
    LET q == [currentQuest EXCEPT !.SelectedPlayers = selected,
                                  !.Votes = MakeMap,
                                  !.Status = "voting"]
    IN Ret([st EXCEPT !.CurrentQuest = << q >>,
                      !.QuestTracker[st.CurrentRound] = q,
                      !.VotesShared = TRUE,
                      !.Phase = "quest_voting"], NoError)

handleQuestSelection(st, playerID, payload) ==
    IF st.Phase # "quest_selection" THEN Ret(st, "not in quest selection phase")
    ELSE
    LET playerIndex == findPlayerIndex(st, playerID) IN
    IF playerIndex = -1 \/ ~st.Players[playerIndex + 1].IsLeader
    THEN Ret(st, "only the leader can select quest team")
    ELSE
    LET currentQuest == st.QuestTracker[st.CurrentRound]
        selected == payload.selected_players
    IN
    IF Len(selected) # currentQuest.RequiredPlayers
    THEN Ret(st, "incorrect number of players selected for quest")
    ELSE IF \E k \in 1..Len(selected) : findPlayerIndex(st, selected[k]) = -1
    THEN Ret(st, "invalid player selected")
    ELSE
    LET q == [currentQuest EXCEPT !.SelectedPlayers = selected,
                                  !.Votes = MakeMap,
                                  !.Status = "voting"]
    IN Ret([st EXCEPT !.CurrentQuest = << q >>,
                      !.QuestTracker[st.CurrentRound] = q,
                      !.VotesShared = TRUE,
                      !.Phase = "quest_voting"], NoError)

(* ------------------------------------------------------------------ *)
(* handleQuestVote                                                     *)
(* ------------------------------------------------------------------ *)
approveCountOf(votes) == Cardinality({k \in DOMAIN votes[1] : votes[1][k]})

(* mutant: a tie approves *)
IsApproved_TieApproves(approveCount, playerCount) == approveCount >= playerCount \div 2

IsApproved(approveCount, playerCount) == approveCount > playerCount \div 2

VoteTrackExhausted(voteTrack) == voteTrack >= VoteTrackLimit

(* g.state.QuestTracker[g.state.CurrentRound-1] = *g.state.CurrentQuest *)
updateQuestTracker(st) ==
    IF st.CurrentQuest = NilQuest THEN Ret(st, Panic)
    ELSE Ret([st EXCEPT !.QuestTracker[st.CurrentRound] = st.CurrentQuest[1],
                        !.VotesShared = TRUE], NoError)

(* mutant: an approved proposal leaves vote_track as it is *)
resolveProposal_KeepsVoteTrack(st) ==
    LET votes == st.CurrentQuest[1].Votes IN
    IF IsApproved(approveCountOf(votes), Len(st.Players))
    THEN updateQuestTracker([st EXCEPT !.CurrentQuest[1].Status = "approved",
                                       !.Phase = "quest_performance"])
    ELSE
    LET s1 == [st EXCEPT !.CurrentQuest[1].Status = "rejected",
                         !.VoteTrack = st.VoteTrack + 1]
    IN
    IF VoteTrackExhausted(s1.VoteTrack)
    THEN Ret([setWinners([s1 EXCEPT !.GameOver = TRUE, !.WinningTeam = TeamEvil],
                         TeamEvil)
                 EXCEPT !.Phase = "game_over"], NoError)
    ELSE updateQuestTracker([advanceLeader(s1) EXCEPT !.CurrentQuest = NilQuest,
                                                     !.VotesShared = FALSE,
                                                     !.Phase = "quest_selection"])

(* the branch taken once every player has voted *)
resolveProposal(st) ==
    LET votes == st.CurrentQuest[1].Votes IN
    IF IsApproved(approveCountOf(votes), Len(st.Players))
    THEN updateQuestTracker([st EXCEPT !.CurrentQuest[1].Status = "approved",
                                       !.VoteTrack = 0,
                                       !.Phase = "quest_performance"])
    ELSE
    LET s1 == [st EXCEPT !.CurrentQuest[1].Status = "rejected",
                         !.VoteTrack = st.VoteTrack + 1]
    IN
    IF VoteTrackExhausted(s1.VoteTrack)
    THEN Ret([setWinners([s1 EXCEPT !.GameOver = TRUE, !.WinningTeam = TeamEvil],
                         TeamEvil)
                 EXCEPT !.Phase = "game_over"], NoError)
    ELSE updateQuestTracker([advanceLeader(s1) EXCEPT !.CurrentQuest = NilQuest,
                                                     !.VotesShared = FALSE,
                                                     !.Phase = "quest_selection"])

(* g.state.CurrentQuest.Votes[playerID] = vote.Approve: the tracker entry *)
(* of the round sees the write when it holds the same map                 *)
recordVote(st, playerID, approve) ==
    LET votes == MapPut(st.CurrentQuest[1].Votes, playerID, approve) IN
    IF st.VotesShared
    THEN [st EXCEPT !.CurrentQuest[1].Votes = votes,
                    !.QuestTracker[st.CurrentRound].Votes = votes]
    ELSE [st EXCEPT !.CurrentQuest[1].Votes = votes]

handleQuestVote(st, playerID, payload) ==
    IF st.Phase # "quest_voting" THEN Ret(st, "not in quest voting phase")
    ELSE IF findPlayerIndex(st, playerID) = -1 THEN Ret(st, "player not found")
    ELSE IF st.CurrentQuest = NilQuest THEN Ret(st, Panic)
    ELSE IF MapHas(st.CurrentQuest[1].Votes, playerID)
    THEN Ret(st, "player has already voted")
    ELSE IF st.CurrentQuest[1].Votes = NilMap THEN Ret(st, Panic)
    ELSE
    LET s1 == recordVote(st, playerID, payload.approve) IN
    IF MapLen(s1.CurrentQuest[1].Votes) = Len(s1.Players)
    THEN resolveProposal(s1)
    ELSE Ret(s1, NoError)

(* ------------------------------------------------------------------ *)
(* handleQuestPerformance                                              *)
(* ------------------------------------------------------------------ *)
countFalse(results) == Cardinality({k \in 1..Len(results) : ~results[k]})

(* mutant: one fail fails every quest *)
failsRequiredFor_AlwaysOne(round, playerCount) == 1

failsRequiredFor(round, playerCount) ==
    IF round = 4 /\ playerCount >= 7
    THEN LET hits == {k \in 1..Len(getQuestRequirements) :
                         getQuestRequirements[k].PlayerCount = playerCount}
         IN IF hits = {} THEN 1 ELSE findRequirement(playerCount).FailsRequiredForQuest4
    ELSE 1

countStatus(tracker, status) ==
    Cardinality({r \in 1..Len(tracker) : tracker[r].Status = status})

(* the branch taken once every selected player has submitted a result *)
completeQuest(st) ==
    LET failCount == countFalse(st.CurrentQuest[1].Results)
        failsRequired == failsRequiredFor(st.CurrentRound, Len(st.Players))
        s1 == [st EXCEPT !.CurrentQuest[1].Status =
                            IF failCount >= failsRequired THEN "fail" ELSE "success"]
        s2 == updateQuestTracker(s1).state
    IN
    IF countStatus(s2.QuestTracker, "success") >= QuestsToWin
    THEN [s2 EXCEPT !.Phase = "assassination"]
    ELSE IF countStatus(s2.QuestTracker, "fail") >= QuestsToWin
    THEN [setWinners([s2 EXCEPT !.GameOver = TRUE, !.WinningTeam = TeamEvil], TeamEvil)
             EXCEPT !.Phase = "game_over"]
    ELSE advanceRound(s2)

(* Only evil players can fail quests *)
mayNotFail(team) == team # TeamEvil

(* mutant: the result is appended before the team of the player is checked *)
handleQuestPerformance_AppendsBeforeCheck(st, playerID, payload) ==
    IF st.Phase # "quest_performance" THEN Ret(st, "not in quest performance phase")
    ELSE
    LET playerIndex == findPlayerIndex(st, playerID) IN
    IF playerIndex = -1 THEN Ret(st, "player not found")
    ELSE IF st.CurrentQuest = NilQuest THEN Ret(st, Panic)
    ELSE
    LET selected == st.CurrentQuest[1].SelectedPlayers IN
    IF ~(\E k \in 1..Len(selected) : selected[k] = playerID)
    THEN Ret(st, "player not selected for quest")
    ELSE
    LET s1 == [st EXCEPT !.CurrentQuest[1].Results = Append(@, payload.success)] IN
    IF ~payload.success /\ mayNotFail(st.Players[playerIndex + 1].Team)
    THEN Ret(s1, "good team players cannot fail quests")
    ELSE IF Len(s1.CurrentQuest[1].Results) = Len(selected)
    THEN Ret(completeQuest(s1), NoError)
    ELSE Ret(s1, NoError)

handleQuestPerformance(st, playerID, payload) ==
    IF st.Phase # "quest_performance" THEN Ret(st, "not in quest performance phase")
    ELSE
    LET playerIndex == findPlayerIndex(st, playerID) IN
    IF playerIndex = -1 THEN Ret(st, "player not found")
    ELSE IF st.CurrentQuest = NilQuest THEN Ret(st, Panic)
    ELSE
    LET selected == st.CurrentQuest[1].SelectedPlayers IN
    IF ~(\E k \in 1..Len(selected) : selected[k] = playerID)
    THEN Ret(st, "player not selected for quest")
    ELSE IF ~payload.success /\ mayNotFail(st.Players[playerIndex + 1].Team)
    THEN Ret(st, "good team players cannot fail quests")
    ELSE
    LET s1 == [st EXCEPT !.CurrentQuest[1].Results = Append(@, payload.success)] IN
    IF Len(s1.CurrentQuest[1].Results) = Len(selected)
    THEN Ret(completeQuest(s1), NoError)
    ELSE Ret(s1, NoError)

(* ------------------------------------------------------------------ *)
(* handleAssassination                                                 *)
(* ------------------------------------------------------------------ *)
(* mutant: the game ends and the phase stays assassination *)
handleAssassination_KeepsPhase(st, playerID, payload) ==
    IF st.Phase # "assassination" THEN Ret(st, "not in assassination phase")
    ELSE
    LET playerIndex == findPlayerIndex(st, playerID) IN
    IF playerIndex = -1 \/ st.Players[playerIndex + 1].Role # RoleAssassin
    THEN Ret(st, "only the assassin can perform assassination")
    ELSE
    LET targetIndex == findPlayerIndex(st, payload.target_id) IN
    IF targetIndex = -1 THEN Ret(st, "target player not found")
    ELSE
    LET team == IF st.Players[targetIndex + 1].Role = RoleMerlin
                THEN TeamEvil ELSE TeamGood
    IN Ret(setWinners([st EXCEPT !.GameOver = TRUE, !.WinningTeam = team], team),
           NoError)

handleAssassination(st, playerID, payload) ==
    IF st.Phase # "assassination" THEN Ret(st, "not in assassination phase")
    ELSE
    LET playerIndex == findPlayerIndex(st, playerID) IN
    IF playerIndex = -1 \/ st.Players[playerIndex + 1].Role # RoleAssassin
    THEN Ret(st, "only the assassin can perform assassination")
    ELSE
    LET targetIndex == findPlayerIndex(st, payload.target_id) IN
    IF targetIndex = -1 THEN Ret(st, "target player not found")
    ELSE
    LET team == IF st.Players[targetIndex + 1].Role = RoleMerlin
                THEN TeamEvil ELSE TeamGood
    IN Ret([setWinners([st EXCEPT !.GameOver = TRUE, !.WinningTeam = team], team)
               EXCEPT !.Phase = "game_over"], NoError)

(* ------------------------------------------------------------------ *)
(* ProcessAction                                                       *)
(* ------------------------------------------------------------------ *)
(* mutant: a finished game is not turned away *)
ProcessAction_NoGameOverCheck(st, playerID, action) ==
    IF findPlayerIndex(st, playerID) = -1 THEN Ret(st, "player not found")
    ELSE IF action.Type = ActionSelectQuest
    THEN handleQuestSelection(st, playerID, action.Payload)
    ELSE IF action.Type = ActionVoteQuest
    THEN handleQuestVote(st, playerID, action.Payload)
    ELSE IF action.Type = ActionPerformQuest
    THEN handleQuestPerformance(st, playerID, action.Payload)
    ELSE IF action.Type = ActionAssassinateMerlin
    THEN handleAssassination(st, playerID, action.Payload)
    ELSE Ret(st, "unknown action type")

ProcessAction(st, playerID, action) ==
    IF st.GameOver THEN Ret(st, "game is over")
    ELSE IF findPlayerIndex(st, playerID) = -1 THEN Ret(st, "player not found")
    ELSE IF action.Type = ActionSelectQuest
    THEN handleQuestSelection(st, playerID, action.Payload)
    ELSE IF action.Type = ActionVoteQuest
    THEN handleQuestVote(st, playerID, action.Payload)
    ELSE IF action.Type = ActionPerformQuest
    THEN handleQuestPerformance(st, playerID, action.Payload)
    ELSE IF action.Type = ActionAssassinateMerlin
    THEN handleAssassination(st, playerID, action.Payload)
    ELSE Ret(st, "unknown action type")

(* ------------------------------------------------------------------ *)
(* json.Marshal of an AvalonState                                      *)
(* ------------------------------------------------------------------ *)
(* omitempty drops a nil map and an empty map alike *)
marshalVotes(votes) == IF MapLen(votes) = 0 THEN NilMap ELSE votes

marshalQuest(q) == [q EXCEPT !.Votes = marshalVotes(q.Votes)]

marshalState(st) ==
    [players |-> st.Players,
     current_round |-> st.CurrentRound,
     leader |-> st.Leader,
     quest_tracker |-> [r \in 1..Len(st.QuestTracker) |-> marshalQuest(st.QuestTracker[r])],
     current_quest |-> IF st.CurrentQuest = NilQuest THEN NilQuest
                       ELSE << marshalQuest(st.CurrentQuest[1]) >>,
     vote_track |-> st.VoteTrack,
     game_over |-> st.GameOver,
     winning_team |-> st.WinningTeam,
     winners |-> st.Winners,
     phase |-> st.Phase]

(* ------------------------------------------------------------------ *)
(* FilterStateForPlayer and getPublicGameState                         *)
(* ------------------------------------------------------------------ *)
Hidden == [Role |-> "", Team |-> ""]
Shown(role, team) == [Role |-> role, Team |-> team]

(* the switch on playerRole: what is stored for another player *)
filterOther(playerRole, otherPlayerRole, otherPlayerTeam) ==
    IF playerRole = RoleMerlin
    THEN IF otherPlayerRole = RoleMordred THEN Hidden
         ELSE IF otherPlayerTeam = TeamEvil THEN Shown("", TeamEvil)
         ELSE Hidden
    ELSE IF playerRole = RolePercival
    THEN IF otherPlayerRole = RoleMerlin \/ otherPlayerRole = RoleMorgana
         THEN Shown(MerlinOrMorgana, "")
         ELSE Hidden
    ELSE IF playerRole \in {RoleAssassin, RoleMinion, RoleMorgana}
    THEN IF otherPlayerTeam = TeamEvil
         THEN IF otherPlayerRole # RoleOberon THEN Shown("", TeamEvil) ELSE Hidden
         ELSE Hidden
    ELSE IF playerRole = RoleMordred
    THEN IF otherPlayerTeam = TeamEvil
         THEN IF otherPlayerRole # RoleOberon THEN Shown("", TeamEvil) ELSE Hidden
         ELSE Hidden
    ELSE Hidden

(* filteredState := g.state copies the struct: the Players slice of the *)
(* copy shares its backing array with g.state.Players                   *)
filterPlayers(players, playerIndex) ==
    LET playerRole == players[playerIndex + 1].Role IN
    [i \in 1..Len(players) |->
        IF i = playerIndex + 1 THEN players[i]
        ELSE LET f == filterOther(playerRole, players[i].Role, players[i].Team)
             IN [players[i] EXCEPT !.Role = f.Role, !.Team = f.Team]]

(* filteredState.CurrentQuest is the pointer g.state.CurrentQuest: the *)
(* new map is stored in the quest object the engine itself uses        *)
filterVotes(votes, playerID) ==
    IF MapHas(votes, playerID)
    THEN << [x \in {playerID} |-> votes[1][x]] >>
    ELSE MakeMap

getPublicGameState(st) ==
    LET s1 == [st EXCEPT !.Players =
                   [i \in 1..Len(st.Players) |->
                       [st.Players[i] EXCEPT !.Role = "", !.Team = ""]]]
    IN IF s1.CurrentQuest # NilQuest /\ s1.CurrentQuest[1].Votes # NilMap
       THEN [s1 EXCEPT !.CurrentQuest[1].Votes = NilMap, !.VotesShared = FALSE]
       ELSE s1

(* the engine state the call leaves behind *)
filteredState(st, playerID) ==
    LET playerIndex == findPlayerIndex(st, playerID) IN
    IF playerIndex = -1 THEN getPublicGameState(st)
    ELSE
    LET s1 == [st EXCEPT !.Players = filterPlayers(st.Players, playerIndex)] IN
    IF s1.CurrentQuest # NilQuest /\ s1.CurrentQuest[1].Votes # NilMap
    THEN [s1 EXCEPT !.CurrentQuest[1].Votes = filterVotes(@, playerID),
                    !.VotesShared = FALSE]
    ELSE s1

(* the call: the state it leaves and the JSON it returns; both the copy *)
(* that is marshalled and g.state read the same players and quest       *)
FilterStateForPlayer(st, playerID) ==
    LET after == filteredState(st, playerID)
    IN [state |-> after, json |-> marshalState(after)]

(* ------------------------------------------------------------------ *)
(* The game as a state machine                                         *)
(* ------------------------------------------------------------------ *)
(* game: g.state of the room's AvalonGame.                             *)
(* out:  what the last call returned.                                  *)
(* assigned: the role and team Init gave each player (never changed by *)
(*       the model; the claims compare against it).                    *)
(* projections: the number of FilterStateForPlayer calls made on their *)
(*       own (the state request of a user) so far.                     *)
(* running: the ProcessGameAction calls in flight, by calling player.   *)
(* clients, rooms: h.clients and h.rooms of the Hub.                    *)
(* conns: the websocket connections with their Client object.           *)
(* mail: the messages whose sender is blocked on h.broadcast/h.direct.  *)
(* svc:  the GameService of the room: whether s.games holds an engine   *)
(*       for it, the game_state of the latest row of game_sessions, the *)
(*       number of rows, the status of the room, and the number of      *)
(*       storage calls that have failed so far.                         *)
(* auth: the auth store of the frontend and its API calls in flight.    *)
VARIABLES game, out, assigned, projections, running, clients, rooms, conns, mail,
          svc, auth

netVars == <<running, clients, rooms, conns, mail>>

vars == <<game, out, assigned, projections, running, clients, rooms, conns, mail,
          svc, auth>>

(* the room has no game: nothing in s.games, no row in game_sessions *)
NoService ==
    [games |-> FALSE, session |-> << >>, rows |-> 0, status |-> "waiting",
     faults |-> 0]

(* null of the frontend *)
Null == "null"

(* the initial state of the auth store; no call in flight, none started *)
LoggedOut ==
    [user |-> Null, token |-> Null, isAuthenticated |-> FALSE, isLoading |-> FALSE,
     error |-> Null, calls |-> {}, started |-> 0]

(* no call in flight, a hub that NewHub has just created, no connection *)
Offline ==
    /\ running = << >>
    /\ clients = << >>
    /\ rooms = << >>
    /\ conns = << >>
    /\ mail = {}
    /\ svc = NoService
    /\ auth = LoggedOut

(* an id that belongs to no player of the game *)
Outsider == 0

(* the options GameService.InitGame passes *)
OptionsFor(n) ==
    [EnableMerlin |-> TRUE, EnablePercival |-> TRUE, EnableMorgana |-> n >= 7,
     EnableOberon |-> n >= 8, EnableMordred |-> n >= 9]

(* shuffle outcomes explored: no swap at all, and every draw 0 *)
NoSwapDraws(n) == [i \in 1..(n - 1) |-> i]
ZeroDraws(n) == [i \in 1..(n - 1) |-> 0]
ShuffleDraws(n) == {NoSwapDraws(n), ZeroDraws(n)}
(* leader draws explored: the first and the last seat *)
LeaderDraws(n) == {0, n - 1}

(* what the last call returned: the operation, who called with what,    *)
(* its outcome ("" or a panic; a call that returns an error is no step) *)
(* and, for a projection, the JSON sent                                 *)
Result(op, actor, arg, err, json) ==
    [op |-> op, actor |-> actor, arg |-> arg, err |-> err, json |-> json]

RolesOf(players) ==
    [i \in 1..Len(players) |-> [Role |-> players[i].Role, Team |-> players[i].Team]]

(* a new game of n players *)
NewGame(n, options) ==
    /\ \E draws \in ShuffleDraws(n), leaderDraw \in LeaderDraws(n) :
          game = InitState(PlayerIDs(n), options, leaderDraw, draws)
    /\ assigned = RolesOf(game.Players)
    /\ out = Result("init", Outsider, << >>, NoError, << >>)
    /\ projections = 0
    /\ Offline

Action(type, payload) == [Type |-> type, Payload |-> payload]

(* ProcessAction as a step: enabled when the call does not return an error *)
Call(playerID, action, arg) ==
    LET r == ProcessAction(game, playerID, action)
    IN /\ r.err \in {NoError, Panic}
       /\ game' = r.state
       /\ out' = Result(action.Type, playerID, arg, r.err, << >>)
       /\ UNCHANGED <<assigned, projections, netVars, svc, auth>>

N == Len(game.Players)
Actors == 0..N
CurrentVotes == IF game.CurrentQuest = NilQuest THEN NilMap ELSE game.CurrentQuest[1].Votes

(* team lists a leader sends: the first or the last k players, one player *)
(* named k times, a list one short, a list naming an unknown id           *)
FirstK(k) == [i \in 1..k |-> i]
LastK(n, k) == [i \in 1..k |-> n - k + i]
TeamLists(n, k) ==
    {FirstK(k), LastK(n, k), [i \in 1..k |-> n], FirstK(k - 1),
     [i \in 1..k |-> IF i = 1 THEN Outsider ELSE i]}

SelectUpTo(maxRound) ==
    /\ game.CurrentRound <= maxRound
    /\ \E p \in Actors :
       \E sel \in TeamLists(N, game.QuestTracker[game.CurrentRound].RequiredPlayers) :
          Call(p, Action(ActionSelectQuest, [selected_players |-> sel]), sel)

(* any player votes either way, in any order *)
VoteQuest ==
    \E p \in Actors, approve \in BOOLEAN :
       Call(p, Action(ActionVoteQuest, [approve |-> approve]), approve)

(* the players vote in seat order, and all the same way *)
VoteInTurn ==
    \E p \in Actors, approve \in BOOLEAN :
       /\ \A q \in 1..(p - 1) : MapHas(CurrentVotes, q)
       /\ CurrentVotes # NilMap => \A q \in DOMAIN CurrentVotes[1] : CurrentVotes[1][q] = approve
       /\ Call(p, Action(ActionVoteQuest, [approve |-> approve]), approve)

PerformQuest ==
    \E p \in Actors, success \in BOOLEAN :
       Call(p, Action(ActionPerformQuest, [success |-> success]), success)

AssassinateTarget ==
    \E p \in Actors, target \in Actors :
       Call(p, Action(ActionAssassinateMerlin, [target_id |-> target]), target)

ProjectUpTo(maxCalls) ==
    /\ projections < maxCalls
    /\ \E viewer \in Actors :
          LET r == FilterStateForPlayer(game, viewer)
          IN /\ game' = r.state
             /\ out' = Result("filter", viewer, << >>, NoError, << r.json >>)
    /\ projections' = projections + 1
    /\ UNCHANGED <<assigned, netVars, svc, auth>>

(* ------------------------------------------------------------------ *)
(* Spec: the first MaxRound rounds of a game of the smallest size, the *)
(* votes of a proposal cast in seat order and all alike, with up to    *)
(* MaxProjections projections computed in between                      *)
(* ------------------------------------------------------------------ *)
MaxRound == 1
MaxProjections == 1

Init == NewGame(MinPlayers, OptionsFor(MinPlayers))

SelectQuestTeam == SelectUpTo(MaxRound)
Project == ProjectUpTo(MaxProjections)

Next ==
    \/ SelectQuestTeam
    \/ VoteInTurn
    \/ PerformQuest
    \/ Project

Spec == Init /\ [][Next]_vars

(* ------------------------------------------------------------------ *)
(* SpecVote: the first round of a game of 5 or 6 players, every player *)
(* voting either way in any order, no projection computed              *)
(* ------------------------------------------------------------------ *)
VotePlayerCounts == {MinPlayers, MinPlayers + 1}

InitVote == \E n \in VotePlayerCounts : NewGame(n, OptionsFor(n))

SelectFirstRound == SelectUpTo(1)

NextVote ==
    \/ SelectFirstRound
    \/ VoteQuest
    \/ PerformQuest

SpecVote == InitVote /\ [][NextVote]_vars

(* ------------------------------------------------------------------ *)
(* SpecFilter: projections of a new game of 6 or 10 players (between   *)
(* them the two sizes hold every role), up to MaxFilterCalls of them   *)
(* ------------------------------------------------------------------ *)
MaxFilterCalls == 3
FilterPlayerCounts == {MinPlayers + 1, MaxPlayers}

InitFilter == \E n \in FilterPlayerCounts : NewGame(n, OptionsFor(n))

ProjectNewGame == ProjectUpTo(MaxFilterCalls)

NextFilter == ProjectNewGame

SpecFilter == InitFilter /\ [][NextFilter]_vars

(* ------------------------------------------------------------------ *)
(* Vocabulary of the claims                                            *)
(* ------------------------------------------------------------------ *)
IsProjection == out.op = "filter"
Viewer == out.actor
Json == out.json[1]
ViewerIsPlayer == Viewer \in 1..N

(* a step that is a FilterStateForPlayer call *)
ProjectionStep == projections' = projections + 1

(* the ids whose individual vote a JSON quest shows *)
VotersShown(q) == IF q.Votes = NilMap THEN {} ELSE DOMAIN q.Votes[1]

(* every individual vote a projection shows, wherever it shows it *)
AllVotersShown(json) ==
    (IF json.current_quest = NilQuest THEN {} ELSE VotersShown(json.current_quest[1]))
    \cup UNION {VotersShown(json.quest_tracker[r]) : r \in 1..Len(json.quest_tracker)}

AssignedEvil == {i \in 1..N : assigned[i].Team = TeamEvil}
Leaders == {i \in 1..N : game.Players[i].IsLeader}
SeqToSet(seq) == {seq[k] : k \in 1..Len(seq)}

(* ------------------------------------------------------------------ *)
(* C1 *)
(* ------------------------------------------------------------------ *)
(* C1: computing a projection, for a player or for a non-player, leaves *)
(* the canonical game state unchanged: every player's role and team and *)
(* the current quest's votes are the same after the call as before it.  *)
C1_ProjectionLeavesStateUnchanged ==
    [][ProjectionStep =>
          /\ RolesOf(game'.Players) = RolesOf(game.Players)
          /\ CurrentVotes' = CurrentVotes]_vars

(* ------------------------------------------------------------------ *)
(* C2 *)
(* ------------------------------------------------------------------ *)
(* the knowledge matrix: what a viewer with viewerRole is shown about   *)
(* another player who was assigned targetRole and targetTeam            *)
KnowledgeMatrix(viewerRole, targetRole, targetTeam) ==
    IF viewerRole = RoleMerlin
    THEN (IF targetTeam = TeamEvil /\ targetRole # RoleMordred
          THEN [Role |-> "", Team |-> TeamEvil] ELSE [Role |-> "", Team |-> ""])
    ELSE IF viewerRole = RolePercival
    THEN (IF targetRole \in {RoleMerlin, RoleMorgana}
          THEN [Role |-> MerlinOrMorgana, Team |-> ""] ELSE [Role |-> "", Team |-> ""])
    ELSE IF viewerRole \in {RoleAssassin, RoleMinion, RoleMorgana, RoleMordred}
    THEN (IF targetTeam = TeamEvil /\ targetRole # RoleOberon
          THEN [Role |-> "", Team |-> TeamEvil] ELSE [Role |-> "", Team |-> ""])
    ELSE [Role |-> "", Team |-> ""]

ShownOf(json, i) == [Role |-> json.players[i].Role, Team |-> json.players[i].Team]

(* C2: in every projection for a player, what is shown of each other    *)
(* player is what the knowledge matrix gives for the viewer's assigned  *)
(* role and the other player's assigned role and team.                  *)
C2_ProjectionMatchesMatrix ==
    (IsProjection /\ ViewerIsPlayer) =>
        \A i \in 1..N : i # Viewer =>
            ShownOf(Json, i) =
                KnowledgeMatrix(assigned[Viewer].Role, assigned[i].Role, assigned[i].Team)

(* ------------------------------------------------------------------ *)
(* C3 *)
(* ------------------------------------------------------------------ *)
(* C3: a projection for viewer v shows no individual vote of a player   *)
(* other than v, in current_quest or in any quest_tracker entry.        *)
C3_NoForeignVoteShown ==
    IsProjection => AllVotersShown(Json) \subseteq {Viewer}

(* ------------------------------------------------------------------ *)
(* C4 *)
(* ------------------------------------------------------------------ *)
(* C4: a projection for a viewer who is a player shows that viewer's    *)
(* own assigned role and team.                                          *)
C4_ViewerSeesOwnRole ==
    (IsProjection /\ ViewerIsPlayer) => ShownOf(Json, Viewer) = assigned[Viewer]

(* ------------------------------------------------------------------ *)
(* C5 *)
(* ------------------------------------------------------------------ *)
(* C5: two consecutive projections for the same viewer, with no action  *)
(* in between, return the same JSON.                                    *)
C5_ProjectionIdempotent ==
    [][(IsProjection /\ ProjectionStep /\ out'.actor = out.actor)
          => out'.json = out.json]_vars

(* ------------------------------------------------------------------ *)
(* C6 *)
(* ------------------------------------------------------------------ *)
(* C6: the projection for an id that is no player shows an empty role   *)
(* and team for every player and no individual vote at all.             *)
C6_PublicProjectionStripped ==
    (IsProjection /\ ~ViewerIsPlayer) =>
        /\ \A i \in 1..N : ShownOf(Json, i) = [Role |-> "", Team |-> ""]
        /\ AllVotersShown(Json) = {}

(* ------------------------------------------------------------------ *)
(* C7 *)
(* ------------------------------------------------------------------ *)
(* C7: while the game is not over exactly one player has is_leader set, *)
(* and it is the player at index leader.                                *)
C7_ExactlyOneLeader ==
    ~game.GameOver => Leaders = {game.Leader + 1}

(* the leader token has gone round: the first quest was completed and   *)
(* advanceRound moved the token from the last seat to the first        *)
C7_Witness ==
    /\ ~game.GameOver
    /\ game.CurrentRound = 2
    /\ game.Leader = 0
    /\ Leaders = {1}
    /\ game.Phase = "quest_selection"

(* ------------------------------------------------------------------ *)
(* C8, C9, C10: the vote that resolves a proposal                      *)
(* ------------------------------------------------------------------ *)
(* a step that is an accepted (or panicking) VoteQuest call *)
VoteStep == out'.op = ActionVoteQuest /\ projections' = projections /\ out' # out

(* the votes of the proposal once the vote of this step is recorded *)
PriorVotes == IF CurrentVotes = NilMap THEN EmptyMap ELSE CurrentVotes[1]
VotesAfter ==
    [x \in (DOMAIN PriorVotes) \cup {out'.actor} |->
        IF x = out'.actor THEN out'.arg ELSE PriorVotes[x]]
ApprovalsAfter == Cardinality({x \in DOMAIN VotesAfter : VotesAfter[x]})

(* C8: when the last of the N votes is cast, approvals are no strict    *)
(* majority and vote_track was below 4, the call completes without      *)
(* error or crash, the quest is recorded as rejected, vote_track grows  *)
(* by one, the leader advances by one seat modulo N, current_quest is   *)
(* cleared, the round is the same and the phase is quest_selection.     *)
C8_RejectionCompletes ==
    [][(/\ VoteStep
        /\ Cardinality(DOMAIN VotesAfter) = N
        /\ ApprovalsAfter <= N \div 2
        /\ game.VoteTrack < 4)
       => /\ out'.err = NoError
          /\ game'.QuestTracker[game.CurrentRound].Status = "rejected"
          /\ game'.VoteTrack = game.VoteTrack + 1
          /\ game'.Leader = (game.Leader + 1) % N
          /\ game'.CurrentQuest = NilQuest
          /\ game'.CurrentRound = game.CurrentRound
          /\ game'.Phase = "quest_selection"]_vars

(* C9: a vote resolves the proposal exactly when it brings the number   *)
(* of recorded votes to N; the proposal is then approved iff the        *)
(* approvals exceed N / 2 (integer division); on approval vote_track is *)
(* 0, the quest is approved in current_quest and in the tracker entry   *)
(* of the round, and the phase is quest_performance.                    *)
C9_ResolvedByStrictMajority ==
    [][VoteStep =>
          /\ (game'.Phase # "quest_voting") <=> (Cardinality(DOMAIN VotesAfter) = N)
          /\ (game'.Phase # "quest_voting") =>
                ((game'.Phase = "quest_performance") <=> (ApprovalsAfter > N \div 2))
          /\ (game'.Phase = "quest_performance") =>
                /\ game'.VoteTrack = 0
                /\ game'.CurrentQuest # NilQuest
                /\ game'.CurrentQuest[1].Status = "approved"
                /\ game'.QuestTracker[game'.CurrentRound].Status = "approved"]_vars

(* a proposal of a 6 player game approved by 4 votes to 2 *)
C9_Witness ==
    /\ out.op = ActionVoteQuest
    /\ game.Phase = "quest_performance"
    /\ N = 6
    /\ approveCountOf(CurrentVotes) = 4

(* C10: the fifth consecutive rejection of a round ends the game with   *)
(* winning_team = evil and winners = the ids of all evil players, and   *)
(* does not advance the leader; quest_performance is not entered.       *)
C10_FifthRejectionEvilWins ==
    [][(VoteStep /\ game.VoteTrack = 4 /\ game'.VoteTrack = 5)
       => /\ game'.GameOver
          /\ game'.WinningTeam = TeamEvil
          /\ SeqToSet(game'.Winners) = AssignedEvil
          /\ game'.Leader = game.Leader
          /\ game'.Phase = "game_over"]_vars

(* ------------------------------------------------------------------ *)
(* SpecGame: whole games of 5 and of 7 players.  The leader proposes   *)
(* the first or the last k players, the players vote in seat order and *)
(* all alike, rejecting only in the first MaxRejectRound rounds, the   *)
(* quest team submits its results in team order, and the assassin (or  *)
(* anyone else) names a target                                         *)
(* ------------------------------------------------------------------ *)
MaxRejectRound == 1
GamePlayerCounts == {MinPlayers, MinPlayers + 2}

InitGame == \E n \in GamePlayerCounts : NewGame(n, OptionsFor(n))

GameTeams(n, k) == {FirstK(k), LastK(n, k)}

SelectTeam ==
    \E p \in Actors :
    \E sel \in GameTeams(N, game.QuestTracker[game.CurrentRound].RequiredPlayers) :
       Call(p, Action(ActionSelectQuest, [selected_players |-> sel]), sel)

VoteEarlyUpTo(maxRejectRound) ==
    \E p \in Actors, approve \in BOOLEAN :
       /\ approve \/ game.CurrentRound <= maxRejectRound
       /\ \A q \in 1..(p - 1) : MapHas(CurrentVotes, q)
       /\ CurrentVotes # NilMap => \A q \in DOMAIN CurrentVotes[1] : CurrentVotes[1][q] = approve
       /\ Call(p, Action(ActionVoteQuest, [approve |-> approve]), approve)

VoteEarly == VoteEarlyUpTo(MaxRejectRound)

(* the k-th result comes from the k-th selected player *)
PerformInTurn ==
    \E p \in Actors, success \in BOOLEAN :
       /\ game.CurrentQuest # NilQuest
       /\ Len(game.CurrentQuest[1].Results) < Len(game.CurrentQuest[1].SelectedPlayers)
       /\ p = game.CurrentQuest[1].SelectedPlayers[Len(game.CurrentQuest[1].Results) + 1]
       /\ Call(p, Action(ActionPerformQuest, [success |-> success]), success)

NextGame ==
    \/ SelectTeam
    \/ VoteEarly
    \/ PerformInTurn
    \/ AssassinateTarget

SpecGame == InitGame /\ [][NextGame]_vars

(* ------------------------------------------------------------------ *)
(* C11 *)
(* ------------------------------------------------------------------ *)
VoteAction(approve) == Action(ActionVoteQuest, [approve |-> approve])

(* C11: while a proposal is being voted on, a player whose vote is      *)
(* recorded cannot vote again (the call fails with "player has already  *)
(* voted"), and every recorded vote is still recorded, unchanged, after *)
(* any step that leaves the proposal unresolved, a projection included. *)
C11_VoteCountedOnce ==
    [][game.Phase = "quest_voting" =>
          /\ \A p \in DOMAIN PriorVotes : \A approve \in BOOLEAN :
                ProcessAction(game, p, VoteAction(approve)).err = "player has already voted"
          /\ game'.Phase = "quest_voting" =>
                \A p \in DOMAIN PriorVotes :
                   /\ MapHas(CurrentVotes', p)
                   /\ CurrentVotes'[1][p] = PriorVotes[p]]_vars

(* ------------------------------------------------------------------ *)
(* C12 *)
(* ------------------------------------------------------------------ *)
SelectAction(sel) == Action(ActionSelectQuest, [selected_players |-> sel])
RequiredNow ==
    IF game.CurrentRound <= NumQuests
    THEN game.QuestTracker[game.CurrentRound].RequiredPlayers ELSE 0
LeaderID == game.Players[game.Leader + 1].ID

(* C12: a SelectQuestTeam call succeeds exactly when the phase is       *)
(* quest_selection, the caller is the current leader, the list has      *)
(* required_players entries and every entry is a player; it then leaves *)
(* current_quest with those players, an empty votes map and status      *)
(* voting, and phase quest_voting; in every other case it fails.        *)
C12_SelectionGuarded ==
    \A p \in Actors : \A sel \in TeamLists(N, RequiredNow) :
       LET r == ProcessAction(game, p, SelectAction(sel))
           legal == /\ game.Phase = "quest_selection"
                    /\ p = LeaderID
                    /\ Len(sel) = RequiredNow
                    /\ SeqToSet(sel) \subseteq 1..N
       IN IF legal
          THEN /\ r.err = NoError
               /\ r.state.CurrentQuest # NilQuest
               /\ r.state.CurrentQuest[1].SelectedPlayers = sel
               /\ r.state.CurrentQuest[1].Votes # NilMap
               /\ MapLen(r.state.CurrentQuest[1].Votes) = 0
               /\ r.state.CurrentQuest[1].Status = "voting"
               /\ r.state.Phase = "quest_voting"
          ELSE r.err \notin {NoError, Panic}

(* the leader has selected a team *)
C12_Witness ==
    /\ out.op = ActionSelectQuest
    /\ out.actor = LeaderID
    /\ out.err = NoError
    /\ game.Phase = "quest_voting"
    /\ game.CurrentQuest[1].SelectedPlayers = out.arg

(* ------------------------------------------------------------------ *)
(* C13 *)
(* ------------------------------------------------------------------ *)
PerformAction(success) == Action(ActionPerformQuest, [success |-> success])
QuestTeam ==
    IF game.CurrentQuest = NilQuest THEN {}
    ELSE SeqToSet(game.CurrentQuest[1].SelectedPlayers)
Accepted(p, action) == ProcessAction(game, p, action).err = NoError

(* C13: in phase quest_performance a result is accepted only from a     *)
(* member of the quest team; success=false is accepted from a member    *)
(* exactly when that member was assigned to the evil team.              *)
C13_ResultGuarded ==
    game.Phase = "quest_performance" =>
        \A p \in Actors :
           /\ Accepted(p, PerformAction(TRUE)) <=> p \in QuestTeam
           /\ Accepted(p, PerformAction(FALSE)) <=>
                 (p \in QuestTeam /\ assigned[p].Team = TeamEvil)

(* ------------------------------------------------------------------ *)
(* C14 *)
(* ------------------------------------------------------------------ *)
AssassinateAction(target) == Action(ActionAssassinateMerlin, [target_id |-> target])

(* the actions tried in every state: every type, with right and wrong   *)
(* payloads, and a type the engine does not know                        *)
ActionsTried ==
    {SelectAction(sel) : sel \in TeamLists(N, RequiredNow)}
    \cup {VoteAction(b) : b \in BOOLEAN}
    \cup {PerformAction(b) : b \in BOOLEAN}
    \cup {AssassinateAction(t) : t \in Actors}
    \cup {Action("unknown", << >>)}

Rejected(r) == r.err \notin {NoError, Panic}

(* C14: a ProcessAction call that returns an error leaves the game      *)
(* state exactly as it was.                                             *)
C14_RejectedLeavesState ==
    \A p \in Actors : \A a \in ActionsTried :
       LET r == ProcessAction(game, p, a)
       IN Rejected(r) => r.state = game

(* a good member of the quest team whose success=false is rejected     *)
C14_Witness ==
    /\ game.Phase = "quest_performance"
    /\ \E p \in QuestTeam :
          /\ assigned[p].Team = TeamGood
          /\ ProcessAction(game, p, PerformAction(FALSE)).err =
                "good team players cannot fail quests"

(* ------------------------------------------------------------------ *)
(* C15 *)
(* ------------------------------------------------------------------ *)
(* a step that is an accepted PerformQuest call *)
PerformStep ==
    /\ game.Phase = "quest_performance"
    /\ out'.op = ActionPerformQuest
    /\ projections' = projections
    /\ game' # game

ResultsNow ==
    IF game.CurrentQuest = NilQuest THEN << >> ELSE game.CurrentQuest[1].Results

(* C15: a PerformQuest by the member whose result was the last one      *)
(* recorded for the quest is not counted: it adds no result and does    *)
(* not complete the quest.                                              *)
C15_OneResultPerMember ==
    [][(/\ out.op = ActionPerformQuest
        /\ Len(ResultsNow) >= 1
        /\ PerformStep
        /\ out'.actor = out.actor)
       => /\ game'.Phase = "quest_performance"
          /\ ResultsNow' = ResultsNow]_vars

(* ------------------------------------------------------------------ *)
(* C16, C17: the result that completes a quest                         *)
(* ------------------------------------------------------------------ *)
(* an accepted PerformQuest that brings the last missing result *)
CompletionStep ==
    /\ PerformStep
    /\ Len(ResultsNow) + 1 = Len(game.CurrentQuest[1].SelectedPlayers)

ResultsAfter == Append(ResultsNow, out'.arg)
StatusAfter == game'.QuestTracker[game.CurrentRound].Status

(* C16: a completed quest is marked fail iff its false results are at   *)
(* least the required fails: 2 in round 4 of a game of 7 or more        *)
(* players (of 7, 8, 9 and 10 alike), 1 otherwise; else it is marked    *)
(* success.                                                             *)
C16_FailThreshold ==
    [][/\ \A pc \in MinPlayers..MaxPlayers : \A r \in 1..NumQuests :
             failsRequiredFor(r, pc) = IF r = 4 /\ pc >= 7 THEN 2 ELSE 1
       /\ CompletionStep =>
             LET fails == Cardinality({k \in 1..Len(ResultsAfter) : ~ResultsAfter[k]})
                 needed == IF game.CurrentRound = 4 /\ N >= 7 THEN 2 ELSE 1
             IN /\ (StatusAfter = "fail") <=> (fails >= needed)
                /\ (StatusAfter = "success") <=> (fails < needed)]_vars

(* round 4 of a 7 player game succeeded with exactly one false result *)
C16_Witness ==
    /\ N = 7
    /\ game.QuestTracker[4].Status = "success"
    /\ countFalse(game.QuestTracker[4].Results) = 1

QuestsWith(tracker, status) == {r \in 1..Len(tracker) : tracker[r].Status = status}

(* C17: when a quest completes, 3 succeeded quests lead to phase        *)
(* assassination with the game not over; else 3 failed quests end the   *)
(* game with evil winning; else the round grows by one, vote_track is   *)
(* 0, the leader advances by one seat, current_quest is cleared and the *)
(* phase is quest_selection.                                            *)
C17_AfterCompletion ==
    [][CompletionStep =>
          IF Cardinality(QuestsWith(game'.QuestTracker, "success")) >= 3
          THEN /\ game'.Phase = "assassination"
               /\ ~game'.GameOver
          ELSE IF Cardinality(QuestsWith(game'.QuestTracker, "fail")) >= 3
          THEN /\ game'.GameOver
               /\ game'.WinningTeam = TeamEvil
          ELSE /\ game'.CurrentRound = game.CurrentRound + 1
               /\ game'.VoteTrack = 0
               /\ game'.Leader = (game.Leader + 1) % N
               /\ game'.CurrentQuest = NilQuest
               /\ game'.Phase = "quest_selection"
               /\ ~game'.GameOver]_vars

(* the third success of a game that also lost a quest *)
C17_Witness ==
    /\ out.op = ActionPerformQuest
    /\ game.Phase = "assassination"
    /\ QuestsWith(game.QuestTracker, "fail") # {}
    /\ Cardinality(QuestsWith(game.QuestTracker, "success")) = 3

(* ------------------------------------------------------------------ *)
(* SpecView: the games of 5 players of SpecGame, with up to            *)
(* MaxLateProjections projections computed for clients that fetch      *)
(* their state during the assassination phase or after the game ended  *)
(* ------------------------------------------------------------------ *)
MaxLateProjections == 1

InitView == NewGame(MinPlayers, OptionsFor(MinPlayers))

LatePhases == {"assassination", "game_over"}

ProjectLate ==
    /\ game.Phase \in LatePhases
    /\ ProjectUpTo(MaxLateProjections)

NextView ==
    \/ SelectTeam
    \/ VoteEarly
    \/ PerformInTurn
    \/ ProjectLate
    \/ AssassinateTarget

SpecView == InitView /\ [][NextView]_vars

(* ------------------------------------------------------------------ *)
(* C18 *)
(* ------------------------------------------------------------------ *)
(* C18: in phase assassination the call is accepted exactly from the    *)
(* player assigned the Assassin role naming a target that is a player;  *)
(* it ends the game, evil winning iff the target was assigned Merlin,   *)
(* good winning otherwise.                                              *)
C18_AssassinationGuarded ==
    game.Phase = "assassination" =>
        \A p \in Actors : \A t \in Actors :
           LET r == ProcessAction(game, p, AssassinateAction(t))
               legal == /\ p \in 1..N
                        /\ assigned[p].Role = RoleAssassin
                        /\ t \in 1..N
           IN IF legal
              THEN /\ r.err = NoError
                   /\ r.state.GameOver
                   /\ r.state.WinningTeam =
                         IF assigned[t].Role = RoleMerlin THEN TeamEvil ELSE TeamGood
              ELSE Rejected(r)

(* ------------------------------------------------------------------ *)
(* C19 *)
(* ------------------------------------------------------------------ *)
(* C19: once game_over is true every ProcessAction call, of any type by *)
(* anyone, fails with "game is over", and game_over, phase,             *)
(* winning_team, winners, the quest tracker and the leader are the same *)
(* after every later step, a projection included.                       *)
C19_GameOverAbsorbing ==
    [][game.GameOver =>
          /\ \A p \in Actors : \A a \in ActionsTried :
                ProcessAction(game, p, a).err = "game is over"
          /\ game'.GameOver
          /\ game'.Phase = game.Phase
          /\ game'.WinningTeam = game.WinningTeam
          /\ game'.Winners = game.Winners
          /\ game'.QuestTracker = game.QuestTracker
          /\ game'.Leader = game.Leader
          /\ Leaders' = Leaders]_vars

(* a projection computed after the assassin missed Merlin *)
C19_Witness ==
    /\ game.GameOver
    /\ game.WinningTeam = TeamGood
    /\ IsProjection

(* ------------------------------------------------------------------ *)
(* C20 *)
(* ------------------------------------------------------------------ *)
PhaseEdges ==
    { <<"quest_selection", "quest_voting">>,
      <<"quest_voting", "quest_selection">>,
      <<"quest_voting", "quest_performance">>,
      <<"quest_voting", "game_over">>,
      <<"quest_performance", "quest_selection">>,
      <<"quest_performance", "assassination">>,
      <<"quest_performance", "game_over">>,
      <<"assassination", "game_over">> }

PhaseSound == game.Phase # "setup" /\ (game.Phase = "game_over" <=> game.GameOver)

(* C20: the phase changes only along the edges of the state graph, it   *)
(* is never setup once Init has returned, and it is game_over exactly   *)
(* when game_over is true.                                              *)
C20_PhaseGraph ==
    [][/\ PhaseSound
       /\ PhaseSound'
       /\ game'.Phase # game.Phase => <<game.Phase, game'.Phase>> \in PhaseEdges]_vars

(* the assassin has named a target: the last edge of the graph *)
C20_Witness ==
    /\ out.op = ActionAssassinateMerlin
    /\ game.Phase = "game_over"
    /\ game.GameOver

(* ------------------------------------------------------------------ *)
(* C21 *)
(* ------------------------------------------------------------------ *)
AssignedTo(team) == {i \in 1..N : assigned[i].Team = team}

(* C21: whenever game_over is true, winners is exactly the set of the   *)
(* ids of the players whose assigned team is winning_team.              *)
C21_WinnersAreWinningTeam ==
    game.GameOver => SeqToSet(game.Winners) = AssignedTo(game.WinningTeam)

(* ------------------------------------------------------------------ *)
(* C22 *)
(* ------------------------------------------------------------------ *)
RequiredPlayersOf(r) == findRequirement(N).QuestPlayers[r]

(* C22: for every round r the quest_tracker entry of r has no selected  *)
(* players or exactly required_players[r] of them.                      *)
C22_TrackerTeamSize ==
    \A r \in 1..NumQuests :
       Len(game.QuestTracker[r].SelectedPlayers) \in {0, RequiredPlayersOf(r)}

(* the entry of a finished first round keeps its team while the second *)
(* round has none yet                                                  *)
C22_Witness ==
    /\ game.CurrentRound = 2
    /\ Len(game.QuestTracker[1].SelectedPlayers) = RequiredPlayersOf(1)
    /\ game.QuestTracker[2].SelectedPlayers = << >>

(* ------------------------------------------------------------------ *)
(* C23 *)
(* ------------------------------------------------------------------ *)
(* a VoteQuest call that brings the number of recorded votes to N *)
ResolvingVote ==
    /\ game.Phase = "quest_voting"
    /\ out'.op = ActionVoteQuest
    /\ projections' = projections
    /\ game' # game
    /\ Cardinality(DOMAIN VotesAfter) = N

ProposalApproved == ResolvingVote /\ ApprovalsAfter > N \div 2
ProposalRejected == ResolvingVote /\ ApprovalsAfter <= N \div 2
RoundBegins == game'.CurrentRound # game.CurrentRound

(* C23: vote_track stays within 0..5; a rejected proposal adds exactly  *)
(* one to it; an approved proposal and the start of a round set it to   *)
(* 0; nothing else changes it.                                          *)
C23_VoteTrackMoves ==
    [][/\ game.VoteTrack \in 0..VoteTrackLimit
       /\ game'.VoteTrack \in 0..VoteTrackLimit
       /\ ProposalRejected => game'.VoteTrack = game.VoteTrack + 1
       /\ ProposalApproved => game'.VoteTrack = 0
       /\ RoundBegins => game'.VoteTrack = 0
       /\ game'.VoteTrack # game.VoteTrack =>
             ProposalRejected \/ ProposalApproved \/ RoundBegins]_vars

(* the fifth rejection in a row *)
C23_Witness ==
    /\ out.op = ActionVoteQuest
    /\ game.VoteTrack = VoteTrackLimit
    /\ game.GameOver

(* ------------------------------------------------------------------ *)
(* SpecRoles: Init as a function of the player count, the options, the *)
(* leader draw and the draws of the shuffle                            *)
(* ------------------------------------------------------------------ *)
(* the state of an engine that NewAvalonGame has just created *)
ZeroState ==
    [Players |-> << >>,
     CurrentRound |-> 0,
     Leader |-> 0,
     QuestTracker |-> << >>,
     CurrentQuest |-> NilQuest,
     VotesShared |-> FALSE,
     VoteTrack |-> 0,
     GameOver |-> FALSE,
     WinningTeam |-> "",
     Winners |-> << >>,
     Phase |-> "",
     Options |-> [EnableMerlin |-> FALSE, EnablePercival |-> FALSE,
                  EnableMorgana |-> FALSE, EnableOberon |-> FALSE,
                  EnableMordred |-> FALSE]]

AllOptions ==
    [EnableMerlin : BOOLEAN, EnablePercival : BOOLEAN, EnableMorgana : BOOLEAN,
     EnableOberon : BOOLEAN, EnableMordred : BOOLEAN]

(* up to this player count every outcome of the shuffle is explored *)
FullShuffleMax == 6

(* every sequence of draws: draw i is rand.Intn(i + 1) *)
AllDraws(n) == {d \in [1..(n - 1) -> 0..(n - 1)] : \A i \in 1..(n - 1) : d[i] <= i}
(* the draws that are either 0 or i: swap with the first slot, or stay *)
EdgeDraws(n) == {[i \in 1..(n - 1) |-> IF i \in S THEN i ELSE 0] : S \in SUBSET (1..(n - 1))}
DrawsFor(n) == IF n <= FullShuffleMax THEN AllDraws(n) ELSE EdgeDraws(n)

InitArgs(n, options, leaderDraw, draws) ==
    [n |-> n, options |-> options, leaderDraw |-> leaderDraw, draws |-> draws]

InitRoles ==
    /\ game = ZeroState
    /\ assigned = << >>
    /\ projections = 0
    /\ Offline
    /\ \E n \in MinPlayers..MaxPlayers :
       \E options \in AllOptions, leaderDraw \in LeaderDraws(n), draws \in DrawsFor(n) :
          out = Result("new", Outsider, InitArgs(n, options, leaderDraw, draws),
                       NoError, << >>)

(* the call of Init on the new engine *)
InitCall ==
    /\ out.op = "new"
    /\ out.arg.n >= MinPlayers /\ out.arg.n <= MaxPlayers
    /\ game' = InitState(PlayerIDs(out.arg.n), out.arg.options,
                         out.arg.leaderDraw, out.arg.draws)
    /\ assigned' = RolesOf(game'.Players)
    /\ out' = Result("init", Outsider, out.arg, NoError, << >>)
    /\ UNCHANGED <<projections, netVars, svc, auth>>

NextRoles == InitCall

SpecRoles == InitRoles /\ [][NextRoles]_vars

(* ------------------------------------------------------------------ *)
(* C24 *)
(* ------------------------------------------------------------------ *)
Holders(role) == {i \in 1..N : game.Players[i].Role = role}
OnTeam(team) == {i \in 1..N : game.Players[i].Team = team}

mapAssign(m, k, v) == [x \in (DOMAIN m) \cup {k} |-> IF x = k THEN v ELSE m[x]]
mapDelete(m, k) == [x \in (DOMAIN m) \ {k} |-> m[x]]

(* ------------------------------------------------------------------ *)
(* SpecRace: VoteQuest calls of one room running at the same time      *)
(* ------------------------------------------------------------------ *)
(* ProcessGameAction takes the engine from s.games and calls            *)
(* ProcessAction on it with no lock held, and every connection has its  *)
(* own goroutine: the calls of handleQuestVote interleave.  A call is   *)
(* split where another call's writes change what it does: the checks    *)
(* and the write of the vote; the count with the writes of the branch   *)
(* taken; the reset of the proposal and the write of the tracker.       *)

(* where a call stands, with its payload and its outcome *)
Running(pc, approve, err) == [pc |-> pc, approve |-> approve, err |-> err]

(* the count of the votes and the branch up to advanceLeader *)
tallyVotes(st) ==
    IF st.CurrentQuest = NilQuest THEN [state |-> st, err |-> Panic, pc |-> "done"]
    ELSE IF MapLen(st.CurrentQuest[1].Votes) # Len(st.Players)
    THEN [state |-> st, err |-> NoError, pc |-> "done"]
    ELSE IF IsApproved(approveCountOf(st.CurrentQuest[1].Votes), Len(st.Players))
    THEN [state |-> [st EXCEPT !.CurrentQuest[1].Status = "approved",
                               !.VoteTrack = 0,
                               !.Phase = "quest_performance"],
          err |-> NoError, pc |-> "approved"]
    ELSE
    LET s1 == [st EXCEPT !.CurrentQuest[1].Status = "rejected",
                         !.VoteTrack = st.VoteTrack + 1]
    IN
    IF VoteTrackExhausted(s1.VoteTrack)
    THEN [state |-> [setWinners([s1 EXCEPT !.GameOver = TRUE,
                                           !.WinningTeam = TeamEvil], TeamEvil)
                        EXCEPT !.Phase = "game_over"],
          err |-> NoError, pc |-> "done"]
    ELSE [state |-> advanceLeader(s1), err |-> NoError, pc |-> "rejected"]

(* the rest of the branch and the write of the tracker entry *)
closeVote(st, pc) ==
    IF pc = "rejected"
    THEN updateQuestTracker([st EXCEPT !.CurrentQuest = NilQuest,
                                       !.VotesShared = FALSE,
                                       !.Phase = "quest_selection"])
    ELSE updateQuestTracker(st)

(* the checks of ProcessAction and handleQuestVote pass and the vote is *)
(* written                                                              *)
BeginVote ==
    \E p \in 1..N, approve \in BOOLEAN :
       /\ p \notin DOMAIN running
       /\ ~game.GameOver
       /\ game.Phase = "quest_voting"
       /\ game.CurrentQuest # NilQuest
       /\ game.CurrentQuest[1].Votes # NilMap
       /\ ~MapHas(game.CurrentQuest[1].Votes, p)
       /\ game' = recordVote(game, p, approve)
       /\ running' = mapAssign(running, p, Running("recorded", approve, NoError))
       /\ UNCHANGED <<out, assigned, projections, clients, rooms, conns, mail, svc, auth>>

TallyVote ==
    \E p \in DOMAIN running :
       /\ running[p].pc = "recorded"
       /\ LET r == tallyVotes(game)
          IN /\ game' = r.state
             /\ running' = [running EXCEPT ![p].pc = r.pc, ![p].err = r.err]
             /\ out' = IF r.pc = "done"
                       THEN Result(ActionVoteQuest, p, running[p].approve, r.err, << >>)
                       ELSE out
       /\ UNCHANGED <<assigned, projections, clients, rooms, conns, mail, svc, auth>>

CloseVote ==
    \E p \in DOMAIN running :
       /\ running[p].pc \in {"approved", "rejected"}
       /\ LET r == closeVote(game, running[p].pc)
          IN /\ game' = r.state
             /\ running' = [running EXCEPT ![p].pc = "done", ![p].err = r.err]
             /\ out' = Result(ActionVoteQuest, p, running[p].approve, r.err, << >>)
       /\ UNCHANGED <<assigned, projections, clients, rooms, conns, mail, svc, auth>>

(* the proposal the calls vote on *)
SelectOnce == running = << >> /\ game.VoteTrack = 0 /\ SelectTeam

InitRace == NewGame(MinPlayers, OptionsFor(MinPlayers))

NextRace == SelectOnce \/ BeginVote \/ TallyVote \/ CloseVote

SpecRace == InitRace /\ [][NextRace]_vars

(* ------------------------------------------------------------------ *)
(* C25 *)
(* ------------------------------------------------------------------ *)
(* C25: game actions of one room that arrive at the same time behave   *)
(* as if applied one after the other; in particular a proposal is      *)
(* tallied once: vote_track and the leader advance only for a proposal *)
(* whose votes have not been tallied yet, never a second time.         *)
C25_ActionsSerialized ==
    [][(\/ game'.VoteTrack > game.VoteTrack
        \/ (game'.Leader # game.Leader /\ game'.CurrentRound = game.CurrentRound))
          => /\ game.CurrentQuest # NilQuest
             /\ game.CurrentQuest[1].Status = "voting"]_vars

(* ------------------------------------------------------------------ *)
(* The Hub                                                             *)
(* ------------------------------------------------------------------ *)
NoRoom == ""

(* capacity of a client's Send channel in the model *)
SendBuffer == 1

Client(id, roomID) ==
    [ID |-> id, RoomID |-> roomID, Send |-> << >>, closed |-> FALSE, at |-> "register"]

Message(type, roomID, userID) == [Type |-> type, RoomID |-> roomID, UserID |-> userID]

(* mutant: a full channel gives up its oldest message for the new one *)
TrySend_DropsOldest(send, msg) ==
    IF Len(send) < SendBuffer THEN Append(send, msg) ELSE Append(Tail(send), msg)

(* select { case client.Send <- msg: default: } *)
TrySend(send, msg) == IF Len(send) < SendBuffer THEN Append(send, msg) ELSE send

(* h.rooms[roomID][id] = true, the room made when it is not there *)
roomAdd(rs, roomID, id) ==
    mapAssign(rs, roomID, (IF roomID \in DOMAIN rs THEN rs[roomID] ELSE {}) \cup {id})

(* delete(h.rooms[roomID], id) and the pruning of the room left empty, *)
(* both under roomID != "" && h.rooms[roomID] != nil                   *)
roomRemove(rs, roomID, id) ==
    IF roomID = NoRoom \/ roomID \notin DOMAIN rs THEN rs
    ELSE IF rs[roomID] \ {id} = {} THEN mapDelete(rs, roomID)
    ELSE [rs EXCEPT ![roomID] = @ \ {id}]

(* the connections whose Send a message is offered to *)
broadcastTargets(msg) ==
    IF msg.RoomID \in DOMAIN rooms
    THEN {clients[id] : id \in rooms[msg.RoomID] \cap DOMAIN clients}
    ELSE {}

directTargets(msg) ==
    IF msg.UserID \in DOMAIN clients THEN {clients[msg.UserID]} ELSE {}

(* the hub offers msg to each target: conns afterwards *)
offer(targets, msg) ==
    [c \in DOMAIN conns |->
        IF c \in targets THEN [conns[c] EXCEPT !.Send = TrySend(@, msg.Type)]
        ELSE conns[c]]

(* the targets whose channel had room *)
taking(targets) == {c \in targets : Len(conns[c].Send) < SendBuffer}

(* what a hub send did: the connections addressed and those that took it *)
Sent(targets) == [to |-> targets, took |-> taking(targets)]

(* ------------------------------------------------------------------ *)
(* The steps of the connection handlers and of Hub.Run                 *)
(* ------------------------------------------------------------------ *)
(* the user id in the token of each connection: two connections of     *)
(* user 1, one of user 2                                               *)
HubConnUser == <<1, 1, 2>>
HubRooms == {"A", "B"}

(* the messages handlers hand to the hub *)
HubMail ==
    {[via |-> "broadcast", msg |-> Message("chat.message", "A", 0)],
     [via |-> "direct", msg |-> Message("system.error", NoRoom, 1)]}

(* websocketHandler up to hub.RegisterClient, blocked on h.register *)
ConnectTo(cs, roomIDs) ==
    \E c \in cs \ DOMAIN conns, roomID \in roomIDs :
       /\ conns' = mapAssign(conns, c, Client(HubConnUser[c], roomID))
       /\ UNCHANGED <<game, out, assigned, projections, running, clients, rooms, mail, svc, auth>>

(* case client := <-h.register *)
HubRegister ==
    \E c \in DOMAIN conns :
       /\ conns[c].at = "register"
       /\ clients' = mapAssign(clients, conns[c].ID, c)
       /\ rooms' = IF conns[c].RoomID # NoRoom
                   THEN roomAdd(rooms, conns[c].RoomID, conns[c].ID)
                   ELSE rooms
       /\ conns' = [conns EXCEPT ![c].Send = TrySend(@, "system.connected"),
                                 ![c].at = "welcome"]
       /\ UNCHANGED <<game, out, assigned, projections, running, mail, svc, auth>>

(* the handler offers system.welcome and enters its read loop *)
Welcome ==
    \E c \in DOMAIN conns :
       /\ conns[c].at = "welcome"
       /\ conns' = [conns EXCEPT ![c].Send = TrySend(@, "system.welcome"),
                                 ![c].at = "open"]
       /\ UNCHANGED <<game, out, assigned, projections, running, clients, rooms, mail, svc, auth>>

(* ReadMessage fails: the handler leaves the loop, blocked on h.unregister *)
Disconnect ==
    \E c \in DOMAIN conns :
       /\ conns[c].at = "open"
       /\ conns' = [conns EXCEPT ![c].at = "unregister"]
       /\ UNCHANGED <<game, out, assigned, projections, running, clients, rooms, mail, svc, auth>>

(* mutant: the unregister case closes the channel and keeps the client *)
HubUnregister_KeepsClient ==
    \E c \in DOMAIN conns :
       /\ conns[c].at = "unregister"
       /\ IF conns[c].ID \in DOMAIN clients
          THEN /\ rooms' = roomRemove(rooms, conns[c].RoomID, conns[c].ID)
               /\ conns' = [conns EXCEPT ![c].closed = TRUE, ![c].at = "gone"]
               /\ UNCHANGED clients
          ELSE /\ conns' = [conns EXCEPT ![c].at = "gone"]
               /\ UNCHANGED <<clients, rooms>>
       /\ UNCHANGED <<game, out, assigned, projections, running, mail, svc, auth>>

(* case client := <-h.unregister *)
HubUnregister ==
    \E c \in DOMAIN conns :
       /\ conns[c].at = "unregister"
       /\ IF conns[c].ID \in DOMAIN clients
          THEN /\ rooms' = roomRemove(rooms, conns[c].RoomID, conns[c].ID)
               /\ conns' = [conns EXCEPT ![c].closed = TRUE, ![c].at = "gone"]
               /\ clients' = mapDelete(clients, conns[c].ID)
          ELSE /\ conns' = [conns EXCEPT ![c].at = "gone"]
               /\ UNCHANGED <<clients, rooms>>
       /\ UNCHANGED <<game, out, assigned, projections, running, mail, svc, auth>>

JoinRoom ==
    \E id \in DOMAIN clients, roomID \in HubRooms :
       LET c == clients[id] IN
       /\ rooms' = roomAdd(roomRemove(rooms, conns[c].RoomID, id), roomID, id)
       /\ conns' = [conns EXCEPT ![c].RoomID = roomID]
       /\ UNCHANGED <<game, out, assigned, projections, running, clients, mail, svc, auth>>

LeaveRoom ==
    \E id \in DOMAIN clients :
       LET c == clients[id] IN
       /\ conns[c].RoomID # NoRoom
       /\ rooms' = roomRemove(rooms, conns[c].RoomID, id)
       /\ conns' = [conns EXCEPT ![c].RoomID = NoRoom]
       /\ UNCHANGED <<game, out, assigned, projections, running, clients, mail, svc, auth>>

(* a handler calls BroadcastToRoom or SendToClient: blocked on the channel *)
Post ==
    \E x \in HubMail \ mail :
       /\ mail' = mail \cup {x}
       /\ UNCHANGED <<game, out, assigned, projections, running, clients, rooms, conns, svc, auth>>

(* case message := <-h.broadcast *)
HubBroadcast ==
    \E x \in mail :
       /\ x.via = "broadcast"
       /\ conns' = offer(broadcastTargets(x.msg), x.msg)
       /\ mail' = mail \ {x}
       /\ out' = Result("hub.broadcast", x.msg.UserID, x.msg, NoError,
                        Sent(broadcastTargets(x.msg)))
       /\ UNCHANGED <<game, assigned, projections, running, clients, rooms, svc, auth>>

(* case message := <-h.direct *)
HubDirect ==
    \E x \in mail :
       /\ x.via = "direct"
       /\ conns' = offer(directTargets(x.msg), x.msg)
       /\ mail' = mail \ {x}
       /\ out' = Result("hub.direct", x.msg.UserID, x.msg, NoError,
                        Sent(directTargets(x.msg)))
       /\ UNCHANGED <<game, assigned, projections, running, clients, rooms, svc, auth>>

(* Client.Run writes the next message of Send to the websocket *)
WriteMessage ==
    \E c \in DOMAIN conns :
       /\ conns[c].at # "register"
       /\ conns[c].Send # << >>
       /\ conns' = [conns EXCEPT ![c].Send = Tail(@)]
       /\ UNCHANGED <<game, out, assigned, projections, running, clients, rooms, mail, svc, auth>>

(* ------------------------------------------------------------------ *)
(* SpecHub: who is registered and in which room.  The connections name *)
(* room A, room B or no room; users join and leave rooms over HTTP.    *)
(* ------------------------------------------------------------------ *)
InitHub ==
    /\ game = ZeroState
    /\ assigned = << >>
    /\ projections = 0
    /\ out = Result("new", Outsider, << >>, NoError, << >>)
    /\ Offline

Connect == ConnectTo(DOMAIN HubConnUser, HubRooms \cup {NoRoom})

NextHub ==
    \/ Connect \/ HubRegister \/ Welcome \/ Disconnect \/ HubUnregister
    \/ JoinRoom \/ LeaveRoom \/ WriteMessage

SpecHub == InitHub /\ [][NextHub]_vars

(* ------------------------------------------------------------------ *)
(* SpecSend: what the hub delivers.  One connection of each user, both *)
(* naming room A; handlers broadcast to the room and send to user 1;   *)
(* nothing makes a client read.                                        *)
(* ------------------------------------------------------------------ *)
SendConns == {1, 3}

ConnectToA == ConnectTo(SendConns, {"A"})

NextSend ==
    \/ ConnectToA \/ HubRegister \/ Welcome \/ Disconnect \/ HubUnregister
    \/ Post \/ HubBroadcast \/ HubDirect \/ WriteMessage

SpecSend == InitHub /\ [][NextSend]_vars

(* the hub loop takes every event handed to it: select picks among the *)
(* ready channels at random, so a sender that stays blocked on one of  *)
(* them is served                                                      *)
SpecSendFair ==
    /\ SpecSend
    /\ WF_vars(HubRegister)
    /\ WF_vars(HubUnregister)
    /\ WF_vars(HubBroadcast)
    /\ WF_vars(HubDirect)

(* ------------------------------------------------------------------ *)
(* C27 *)
(* ------------------------------------------------------------------ *)
HubUsers == {HubConnUser[c] : c \in DOMAIN HubConnUser}

(* the hub processes the registration, the disconnect of connection c *)
RegisterTaken(c) == conns[c].at = "register" /\ conns'[c].at = "welcome"
DisconnectTaken(c) == conns[c].at = "unregister" /\ conns'[c].at = "gone"

(* C27: a connection registering under an id becomes the session the   *)
(* hub holds for that id, and the hub keeps holding it until it        *)
(* disconnects itself or a newer connection registers under the id; in *)
(* particular the disconnect of a replaced connection leaves it alone. *)
C27_NewSessionReplaces ==
    [][/\ \A c \in DOMAIN conns :
             RegisterTaken(c) =>
                conns[c].ID \in DOMAIN clients' /\ clients'[conns[c].ID] = c
       /\ \A id \in DOMAIN clients :
             (/\ ~DisconnectTaken(clients[id])
              /\ \A d \in DOMAIN conns : ~(RegisterTaken(d) /\ conns[d].ID = id))
                => id \in DOMAIN clients' /\ clients'[id] = clients[id]]_vars

(* ------------------------------------------------------------------ *)
(* C28 *)
(* ------------------------------------------------------------------ *)
RoomsOf(id) == {r \in DOMAIN rooms : id \in rooms[r]}

(* C28: every player id is a member of at most one room, and that room *)
(* is the RoomID of the session registered for the id.                 *)
C28_MembershipManyToOne ==
    \A id \in HubUsers :
       /\ Cardinality(RoomsOf(id)) <= 1
       /\ \A r \in RoomsOf(id) :
             id \in DOMAIN clients /\ conns[clients[id]].RoomID = r

(* ------------------------------------------------------------------ *)
(* C29 *)
(* ------------------------------------------------------------------ *)
(* C29: once the hub has processed the disconnect of a session, the    *)
(* session's player id is a member of no room and the membership index *)
(* holds no room without members.                                      *)
C29_DisconnectCleansUp ==
    [][\A c \in DOMAIN conns :
          DisconnectTaken(c) =>
             \A r \in DOMAIN rooms' : conns[c].ID \notin rooms'[r] /\ rooms'[r] # {}]_vars

(* ------------------------------------------------------------------ *)
(* C30 *)
(* ------------------------------------------------------------------ *)
(* the hub takes message x off its channel in this step *)
SendTaken(x) == x \in mail /\ x \notin mail'

(* where the handler of connection c stands *)
HandlerAt(c) == IF c \in DOMAIN conns THEN conns[c].at ELSE "none"

TargetsOf(x) ==
    IF x.via = "broadcast" THEN broadcastTargets(x.msg) ELSE directTargets(x.msg)

(* C30: a message for a session whose Send is full is dropped for that *)
(* session alone: every other addressed session gets it and nothing    *)
(* else changes; and the hub never waits for a reader: every message,  *)
(* registration and disconnect handed to it is processed.              *)
C30_FullBufferDrops ==
    /\ [][\A x \in HubMail :
             SendTaken(x) =>
                \A c \in DOMAIN conns :
                   conns'[c] =
                      IF c \in TargetsOf(x) /\ Len(conns[c].Send) < SendBuffer
                      THEN [conns[c] EXCEPT !.Send = Append(@, x.msg.Type)]
                      ELSE conns[c]]_vars
    /\ \A x \in HubMail : (x \in mail) ~> (x \notin mail)
    /\ \A c \in DOMAIN HubConnUser :
          /\ (HandlerAt(c) = "register") ~> (HandlerAt(c) = "welcome")
          /\ (HandlerAt(c) = "unregister") ~> (HandlerAt(c) = "gone")

(* a broadcast that one member's full channel dropped and another took *)
C30_Witness ==
    /\ out.op = "hub.broadcast"
    /\ out.json.took # {}
    /\ out.json.to \ out.json.took # {}

(* ------------------------------------------------------------------ *)
(* SpecCast: the game.action message of a connection: the action and   *)
(* the state update sent to every client of the room                   *)
(* ------------------------------------------------------------------ *)
GameRoom == "A"

StateUpdate(roomID, userID, payload) ==
    [Type |-> "game.state_update", RoomID |-> roomID, UserID |-> userID,
     Payload |-> payload]

(* the ids of the clients hub.GetClientsInRoom returns *)
GetClientsInRoom(roomID) ==
    IF roomID \in DOMAIN rooms THEN rooms[roomID] \cap DOMAIN clients ELSE {}

(* the orders the range over h.rooms[roomID] is taken in: up or down *)
Ascending(ids) ==
    [i \in 1..Cardinality(ids) |->
        CHOOSE x \in ids : Cardinality({y \in ids : y < x}) = i - 1]
Descending(ids) ==
    [i \in 1..Cardinality(ids) |->
        CHOOSE x \in ids : Cardinality({y \in ids : y > x}) = i - 1]
RoomOrders(ids) == {Ascending(ids), Descending(ids)}

(* sendGameStateToRoom: GetFilteredGameState for one client after the  *)
(* other on the engine of the room; the messages and the engine state  *)
(* left behind                                                         *)
RECURSIVE sendGameStateToRoom(_, _)
sendGameStateToRoom(st, ids) ==
    IF ids = << >> THEN [state |-> st, msgs |-> << >>]
    ELSE LET r == FilterStateForPlayer(st, Head(ids))
             rest == sendGameStateToRoom(r.state, Tail(ids))
         IN [state |-> rest.state,
             msgs |-> <<StateUpdate(GameRoom, Head(ids), r.json)>> \o rest.msgs]

(* the handler of connection c receives a game.action message *)
GameAction(c, action) ==
    /\ conns[c].at = "open"
    /\ conns[c].RoomID = GameRoom
    /\ LET r == ProcessAction(game, conns[c].ID, action) IN
       \/ /\ r.err = Panic
          /\ game' = r.state
          /\ out' = Result(action.Type, conns[c].ID, action.Payload, Panic, << >>)
          /\ UNCHANGED conns
       \/ /\ r.err = NoError
          /\ \E ids \in RoomOrders(GetClientsInRoom(GameRoom)) :
                LET sent == sendGameStateToRoom(r.state, ids) IN
                /\ game' = sent.state
                /\ out' = Result(action.Type, conns[c].ID, action.Payload, NoError,
                                 sent.msgs)
                /\ conns' = offer({clients[id] : id \in GetClientsInRoom(GameRoom)},
                                  Message("game.state_update", GameRoom, 0))
    /\ UNCHANGED <<assigned, projections, running, clients, rooms, mail, svc, auth>>

CastSelect ==
    \E c \in DOMAIN conns :
    \E sel \in GameTeams(N, game.QuestTracker[game.CurrentRound].RequiredPlayers) :
       GameAction(c, SelectAction(sel))

CastVote == \E c \in DOMAIN conns, approve \in BOOLEAN : GameAction(c, VoteAction(approve))

(* a game of the smallest size has begun; its players, the first        *)
(* perhaps excepted, are connected to the room                          *)
InitCast ==
    /\ \E draws \in ShuffleDraws(MinPlayers), leaderDraw \in LeaderDraws(MinPlayers) :
          game = InitState(PlayerIDs(MinPlayers), OptionsFor(MinPlayers),
                           leaderDraw, draws)
    /\ assigned = RolesOf(game.Players)
    /\ out = Result("init", Outsider, << >>, NoError, << >>)
    /\ projections = 0
    /\ running = << >>
    /\ mail = {}
    /\ svc = NoService
    /\ auth = LoggedOut
    /\ \E ids \in {1..MinPlayers, 2..MinPlayers} :
          /\ conns = [c \in ids |->
                         [Client(c, GameRoom) EXCEPT !.at = "open"]]
          /\ clients = [id \in ids |-> id]
          /\ rooms = [r \in {GameRoom} |-> ids]

NextCast == CastSelect \/ CastVote \/ WriteMessage

SpecCast == InitCast /\ [][NextCast]_vars

(* ------------------------------------------------------------------ *)
(* C26 *)
(* ------------------------------------------------------------------ *)
(* a game.action message has been handled without error *)
CastStep ==
    /\ out' # out
    /\ out'.op \in {ActionSelectQuest, ActionVoteQuest, ActionPerformQuest}
    /\ out'.err = NoError

(* the state right after the action of the step *)
AfterAction == ProcessAction(game, out'.actor, Action(out'.op, out'.arg)).state

(* C26: after a successful action every session of the room is sent    *)
(* one game.state_update; its payload is the projection for that       *)
(* session's own player id, computed from the state right after the    *)
(* action, the same state for all of them.                             *)
C26_UpdatesFromOneState ==
    [][CastStep =>
          /\ Len(out'.json) = Cardinality(GetClientsInRoom(GameRoom))
          /\ {out'.json[k].UserID : k \in DOMAIN out'.json} = GetClientsInRoom(GameRoom)
          /\ \A k \in DOMAIN out'.json :
                out'.json[k].Payload =
                   FilterStateForPlayer(AfterAction, out'.json[k].UserID).json]_vars

(* ------------------------------------------------------------------ *)
(* C36 *)
(* ------------------------------------------------------------------ *)
(* C36: the selected players of every proposal are distinct player ids: *)
(* no accepted team selection names the same player twice.              *)
C36_SelectedDistinct ==
    game.CurrentQuest # NilQuest =>
        Cardinality(SeqToSet(game.CurrentQuest[1].SelectedPlayers))
            = Len(game.CurrentQuest[1].SelectedPlayers)

(* ------------------------------------------------------------------ *)
(* SpecClose: registration, re-registration and disconnects of the     *)
(* three connections, all naming room A, interleaved with the          *)
(* broadcasts and direct messages of the hub                           *)
(* ------------------------------------------------------------------ *)
ConnectAllToA == ConnectTo(DOMAIN HubConnUser, {"A"})

NextClose ==
    \/ ConnectAllToA \/ HubRegister \/ Welcome \/ Disconnect \/ HubUnregister
    \/ Post \/ HubBroadcast \/ HubDirect \/ WriteMessage

SpecClose == InitHub /\ [][NextClose]_vars

(* ------------------------------------------------------------------ *)
(* C39 *)
(* ------------------------------------------------------------------ *)
(* C39: whatever the order of registrations, re-registrations,         *)
(* disconnects, broadcasts and direct messages, every channel the hub  *)
(* sends on is open at that moment, and the channel the hub closes was *)
(* open until then.                                                    *)
C39_NoSendAfterClose ==
    [][/\ \A x \in HubMail :
             SendTaken(x) => \A c \in TargetsOf(x) : ~conns[c].closed
       /\ \A c \in DOMAIN conns :
             /\ RegisterTaken(c) => ~conns[c].closed
             /\ (DisconnectTaken(c) /\ conns[c].ID \in DOMAIN clients)
                   => ~conns[c].closed /\ conns'[c].closed]_vars

(* the hub delivered a message to a session of a user whose earlier    *)
(* connection has been closed                                          *)
C39_Witness ==
    /\ out.op \in {"hub.broadcast", "hub.direct"}
    /\ out.json.took # {}
    /\ \E c \in DOMAIN conns : \E d \in out.json.took :
          conns[c].closed /\ c # d /\ conns[c].ID = conns[d].ID

(* ------------------------------------------------------------------ *)
(* C40 *)
(* ------------------------------------------------------------------ *)
(* the progress of a game as a number: the round; within the round    *)
(* the quest under way with its results, after the proposals with      *)
(* their votes; assassination comes after the last quest and the end   *)
(* of the game after everything                                        *)
PhaseRank(phase) == IF phase = "quest_voting" THEN 1 ELSE 0

Rank(st) ==
    LET n == Len(st.Players)
        votes == IF st.CurrentQuest = NilQuest THEN 0
                 ELSE MapLen(st.CurrentQuest[1].Votes)
        results == IF st.CurrentQuest = NilQuest THEN 0
                   ELSE Len(st.CurrentQuest[1].Results)
        proposals == (VoteTrackLimit + 1) * 2 * (n + 1)
        perRound == proposals + n + 1
        inRound == IF st.Phase = "quest_performance" THEN proposals + results
                   ELSE (st.VoteTrack * 2 + PhaseRank(st.Phase)) * (n + 1) + votes
    IN IF st.GameOver THEN (NumQuests + 1) * perRound + 1
       ELSE IF st.Phase = "assassination" THEN (NumQuests + 1) * perRound
       ELSE st.CurrentRound * perRound + inRound

(* C40: every accepted action moves the game forward on a bounded      *)
(* scale (5 rounds, 5 proposals a round, N votes a proposal, the       *)
(* results of a team, one assassination), so no run accepts actions    *)
(* for ever; and the current round never exceeds the number of quests. *)
C40_GameTerminates ==
    [][CastStep =>
          /\ Rank(game') > Rank(game)
          /\ game'.CurrentRound <= NumQuests]_vars

(* ------------------------------------------------------------------ *)
(* GetState and LoadState                                              *)
(* ------------------------------------------------------------------ *)
(* json.Marshal(g.state): the fields of marshalState and the options *)
GetState(st) ==
    [state |-> marshalState(st), options |-> st.Options]

(* json.Unmarshal into the state of a new engine: a field left out of  *)
(* the text stays nil; the quest of current_quest is an object of its  *)
(* own, no longer the one of the tracker                               *)
LoadState(js) ==
    [Players |-> js.state.players,
     CurrentRound |-> js.state.current_round,
     Leader |-> js.state.leader,
     QuestTracker |-> js.state.quest_tracker,
     CurrentQuest |-> js.state.current_quest,
     VotesShared |-> FALSE,
     VoteTrack |-> js.state.vote_track,
     GameOver |-> js.state.game_over,
     WinningTeam |-> js.state.winning_team,
     Winners |-> js.state.winners,
     Phase |-> js.state.phase,
     Options |-> js.options]

(* ------------------------------------------------------------------ *)
(* SpecReload: the games of SpecGame with 5 players; at any moment the *)
(* service may have lost the engine and load it again from the state   *)
(* it saved after the last action                                      *)
(* ------------------------------------------------------------------ *)
InitReload == NewGame(MinPlayers, OptionsFor(MinPlayers))

Reload ==
    /\ out.op # "load"
    /\ game' = LoadState(GetState(game))
    /\ out' = Result("load", Outsider, << >>, NoError, GetState(game))
    /\ UNCHANGED <<assigned, projections, netVars, svc, auth>>

NextReload == NextGame \/ Reload

SpecReload == InitReload /\ [][NextReload]_vars

(* ------------------------------------------------------------------ *)
(* C38 *)
(* ------------------------------------------------------------------ *)
(* C38: the game loaded from the saved state has the roles, teams and  *)
(* leader of the game in memory, and every action has the same outcome *)
(* on it as on the game in memory: the same error and the same state.  *)
C38_ReloadEquivalent ==
    LET loaded == LoadState(GetState(game)) IN
    /\ RolesOf(loaded.Players) = RolesOf(game.Players)
    /\ loaded.Leader = game.Leader
    /\ \A p \in Actors : \A a \in ActionsTried :
          LET r == ProcessAction(game, p, a)
              l == ProcessAction(loaded, p, a)
          IN l.err = r.err /\ GetState(l.state) = GetState(r.state)

(* ------------------------------------------------------------------ *)
(* GameService                                                         *)
(* ------------------------------------------------------------------ *)
StorageError == "storage error"

(* the repository call of ProcessGameAction that fails, if any *)
StorageFaults == {"none", "GetByRoomID", "UpdateGameState", "UpdateHistory", "UpdateStatus"}

(* what a service call leaves: the engine, the service, the error *)
Served(g, sv, err) == [game |-> g, svc |-> sv, err |-> err]

(* loadGame: the latest session of the room loaded into a new engine, *)
(* which is stored in s.games                                         *)
loadGame(g, sv, roomID) ==
    IF roomID # GameRoom THEN Served(g, sv, "room not found")
    ELSE IF sv.session = << >> THEN Served(g, sv, "no game session found for room")
    ELSE Served(LoadState(sv.session[1]), [sv EXCEPT !.games = TRUE], NoError)

(* the engine of the room, loaded when s.games does not hold it *)
engineOf(g, sv, roomID) ==
    IF roomID = GameRoom /\ sv.games THEN Served(g, sv, NoError)
    ELSE loadGame(g, sv, roomID)

ProcessGameAction(g, sv, roomID, playerID, action, fault) ==
    LET l == engineOf(g, sv, roomID) IN
    IF l.err # NoError THEN l
    ELSE
    LET r == ProcessAction(l.game, playerID, action) IN
    IF r.err # NoError THEN Served(r.state, l.svc, r.err)
    ELSE IF fault \in {"GetByRoomID", "UpdateGameState"}
    THEN Served(r.state, [l.svc EXCEPT !.faults = @ + 1], StorageError)
    ELSE
    LET saved == [l.svc EXCEPT !.session = <<GetState(r.state)>>] IN
    IF fault = "UpdateHistory"
    THEN Served(r.state, [saved EXCEPT !.faults = @ + 1], StorageError)
    ELSE IF ~r.state.GameOver THEN Served(r.state, saved, NoError)
    ELSE IF fault = "UpdateStatus"
    THEN Served(r.state, [saved EXCEPT !.faults = @ + 1], StorageError)
    ELSE Served(ZeroState, [saved EXCEPT !.status = "finished", !.games = FALSE],
                NoError)

(* GameService.InitGame with the draws of the engine's Init; createFails *)
(* when gameSessionRepo.Create returns an error                         *)
ServiceInitGame(g, sv, n, leaderDraw, draws, createFails) ==
    IF sv.status # "playing" THEN Served(g, sv, "room is not in playing status")
    ELSE IF n < MinPlayers \/ n > MaxPlayers THEN Served(g, sv, "game requires 5-10 players")
    ELSE IF createFails THEN Served(g, [sv EXCEPT !.faults = @ + 1], StorageError)
    ELSE LET new == InitState(PlayerIDs(n), OptionsFor(n), leaderDraw, draws) IN
         Served(new,
                [sv EXCEPT !.games = TRUE, !.session = <<GetState(new)>>,
                           !.rows = @ + 1],
                NoError)

(* sendGameStateToRoom of the handler: GetFilteredGameState for each   *)
(* client of the room, which loads the engine when s.games lacks it    *)
castGameState(g, sv, roomID, ids) ==
    IF ids = << >> THEN [game |-> g, svc |-> sv, msgs |-> << >>]
    ELSE LET l == engineOf(g, sv, roomID) IN
         IF l.err # NoError THEN [game |-> g, svc |-> sv, msgs |-> << >>]
         ELSE LET sent == sendGameStateToRoom(l.game, ids) IN
              [game |-> sent.state, svc |-> l.svc, msgs |-> sent.msgs]

(* ------------------------------------------------------------------ *)
(* The game.action message of a connection                             *)
(* ------------------------------------------------------------------ *)
(* what the handler did: the connection, the room named, the sessions  *)
(* that were sent system.error, the state updates sent                 *)
Handled(c, roomID, errorTo, updates) ==
    [conn |-> c, room |-> roomID, errorTo |-> errorTo, updates |-> updates]

(* sendError: a system.error for the user id of the connection, which  *)
(* the hub offers to the client it holds for that id                   *)
sendError(c, roomID, action, err) ==
    LET msg == Message("system.error", roomID, conns[c].ID) IN
    /\ conns' = offer(directTargets(msg), msg)
    /\ out' = Result(action.Type, conns[c].ID, action.Payload, err,
                     Handled(c, roomID, directTargets(msg), << >>))

(* the handler of connection c reads a game.action for roomID *)
HandleGameAction(c, roomID, action, fault) ==
    /\ conns[c].at = "open"
    /\ UNCHANGED <<assigned, projections, running, clients, rooms, mail, auth>>
    /\ IF roomID = NoRoom
       THEN sendError(c, roomID, action, "room_id is required")
            /\ UNCHANGED <<game, svc>>
       ELSE IF conns[c].RoomID = NoRoom
       THEN sendError(c, roomID, action, "client is not in a room")
            /\ UNCHANGED <<game, svc>>
       ELSE IF conns[c].RoomID # roomID
       THEN sendError(c, roomID, action, "client is not in this room")
            /\ UNCHANGED <<game, svc>>
       ELSE
       \E r \in {ProcessGameAction(game, svc, roomID, conns[c].ID, action, fault)} :
       IF r.err = Panic
       THEN /\ game' = r.game
            /\ svc' = r.svc
            /\ out' = Result(action.Type, conns[c].ID, action.Payload, Panic,
                             Handled(c, roomID, {}, << >>))
            /\ UNCHANGED conns
       ELSE IF r.err # NoError
       THEN /\ game' = r.game
            /\ svc' = r.svc
            /\ sendError(c, roomID, action, r.err)
       ELSE \E ids \in RoomOrders(GetClientsInRoom(roomID)) :
               \E cast \in {castGameState(r.game, r.svc, roomID, ids)} :
               /\ game' = cast.game
               /\ svc' = cast.svc
               /\ out' = Result(action.Type, conns[c].ID, action.Payload, NoError,
                                Handled(c, roomID, {}, cast.msgs))
               /\ conns' = IF cast.msgs = << >> THEN conns
                           ELSE offer({clients[id] : id \in GetClientsInRoom(roomID)},
                                      Message("game.state_update", roomID, 0))

(* ------------------------------------------------------------------ *)
(* SpecRoute: a game of 5 players has been initialised for room A;     *)
(* user 1 connects with up to two connections naming room A, leaves    *)
(* the room over HTTP, and sends game.action messages; a storage call  *)
(* may fail, and InitGame may be called again                          *)
(* ------------------------------------------------------------------ *)
MaxFaults == 1
MaxInits == 2
RouteConns == {1, 2}

(* the service after InitGame for a new game g *)
Playing(g) ==
    [games |-> TRUE, session |-> <<GetState(g)>>, rows |-> 1, status |-> "playing",
     faults |-> 0]

InitRoute ==
    /\ \E draws \in ShuffleDraws(MinPlayers), leaderDraw \in LeaderDraws(MinPlayers) :
          game = InitState(PlayerIDs(MinPlayers), OptionsFor(MinPlayers),
                           leaderDraw, draws)
    /\ assigned = RolesOf(game.Players)
    /\ out = Result("init", Outsider, << >>, NoError, << >>)
    /\ projections = 0
    /\ running = << >>
    /\ clients = << >>
    /\ rooms = << >>
    /\ conns = << >>
    /\ mail = {}
    /\ svc = Playing(game)
    /\ auth = LoggedOut

ConnectUser == ConnectTo(RouteConns, {GameRoom})

(* the actions user 1 sends, and the room ids it names *)
RouteActions ==
    {SelectAction(FirstK(RequiredNow)), VoteAction(TRUE), Action("unknown", << >>)}
RouteRooms == {GameRoom}

(* the storage calls that may fail now *)
FaultsNow == IF svc.faults < MaxFaults THEN {"none", "UpdateGameState"} ELSE {"none"}

RouteAction ==
    \E c \in DOMAIN conns, roomID \in RouteRooms, action \in RouteActions :
    \E fault \in FaultsNow :
       HandleGameAction(c, roomID, action, fault)

(* POST /rooms/:roomId/game/init while the room is playing *)
InitAgain ==
    /\ svc.rows < MaxInits
    /\ \E draws \in ShuffleDraws(MinPlayers), leaderDraw \in LeaderDraws(MinPlayers) :
          \E r \in {ServiceInitGame(game, svc, MinPlayers, leaderDraw, draws, FALSE)} :
          /\ r.err = NoError
          /\ game' = r.game
          /\ svc' = r.svc
          /\ assigned' = RolesOf(r.game.Players)
          /\ out' = Result("InitGame", Outsider, << >>, r.err, << >>)
    /\ UNCHANGED <<projections, netVars, auth>>

NextRoute ==
    \/ ConnectUser \/ HubRegister \/ Welcome \/ Disconnect \/ HubUnregister
    \/ LeaveRoom \/ RouteAction \/ InitAgain

SpecRoute == InitRoute /\ [][NextRoute]_vars

(* ------------------------------------------------------------------ *)
(* C31 *)
(* ------------------------------------------------------------------ *)
(* a handler has dealt with a game.action message in this step *)
Handling ==
    /\ out' # out \/ game' # game \/ svc' # svc
    /\ out'.op # "InitGame"

(* the connection that sent it *)
Sender == out'.json.conn

(* C31: when a game action fails, the system.error goes to the session *)
(* that sent the action and to no other, no state update is sent, no   *)
(* other session is sent anything, and the game state is as before.    *)
C31_ErrorToSenderOnly ==
    [][(Handling /\ out'.err # NoError) =>
          /\ out'.json.errorTo = {Sender}
          /\ out'.json.updates = << >>
          /\ \A d \in DOMAIN conns \ {Sender} : conns'[d] = conns[d]
          /\ game' = game]_vars

(* ------------------------------------------------------------------ *)
(* C32 *)
(* ------------------------------------------------------------------ *)
(* connection c is the session the hub holds for its user, and the     *)
(* user is a member of the room                                        *)
InHubRoom(c, roomID) ==
    /\ conns[c].ID \in DOMAIN clients
    /\ clients[conns[c].ID] = c
    /\ roomID \in DOMAIN rooms
    /\ conns[c].ID \in rooms[roomID]

(* the errors of the handler's own checks, made before the service is called *)
GateErrors ==
    {"room_id is required", "client is not in a room", "client is not in this room"}

(* C32: a game.action is passed to the game only when the sending      *)
(* session is in the hub room the message names; otherwise the sender  *)
(* is sent an error and the game state stays as it was.                *)
C32_ActionNeedsRoom ==
    [][(Handling /\ ~InHubRoom(Sender, out'.json.room)) =>
          /\ out'.err \in GateErrors
          /\ out'.json.errorTo = {Sender}
          /\ game' = game]_vars

(* ------------------------------------------------------------------ *)
(* C33 *)
(* ------------------------------------------------------------------ *)
(* C33: an action during which a storage call fails is reported as     *)
(* failed and leaves the game state in memory as it was before.        *)
C33_NoPartialApply ==
    [][(Handling /\ out'.err = StorageError) =>
          game' = game /\ svc'.games = svc.games]_vars

(* ------------------------------------------------------------------ *)
(* C35 *)
(* ------------------------------------------------------------------ *)
(* C35: an InitGame call for a room whose game is in progress creates  *)
(* no further game state: no new session row, the same roles, the same *)
(* leader, the same progress.                                          *)
C35_InitOnce ==
    [][(out' # out /\ out'.op = "InitGame" /\ svc.rows >= 1) =>
          /\ svc'.rows = svc.rows
          /\ RolesOf(game'.Players) = RolesOf(game.Players)
          /\ game'.Leader = game.Leader
          /\ game' = game]_vars

(* ------------------------------------------------------------------ *)
(* SpecOver: a game of 5 players played to its end over the websocket. *)
(* Each player's connection names room A and is open, but the hub      *)
(* holds no session for it: a second connection of the player has      *)
(* registered and disconnected since (the run of SpecRoute in which    *)
(* connection 2 comes and goes).  A spectator may connect to the room  *)
(* at any moment.  The players act as in SpecGame.                     *)
(* ------------------------------------------------------------------ *)
SpectatorConn == MinPlayers + 1

InitOver ==
    /\ \E draws \in ShuffleDraws(MinPlayers), leaderDraw \in LeaderDraws(MinPlayers) :
          game = InitState(PlayerIDs(MinPlayers), OptionsFor(MinPlayers),
                           leaderDraw, draws)
    /\ assigned = RolesOf(game.Players)
    /\ out = Result("init", Outsider, << >>, NoError, << >>)
    /\ projections = 0
    /\ running = << >>
    /\ clients = << >>
    /\ rooms = << >>
    /\ conns = [c \in 1..MinPlayers |-> [Client(c, GameRoom) EXCEPT !.at = "open"]]
    /\ mail = {}
    /\ svc = Playing(game)
    /\ auth = LoggedOut

(* a user who is no player opens a websocket with room_id=A *)
Spectate ==
    /\ SpectatorConn \notin DOMAIN conns
    /\ conns' = mapAssign(conns, SpectatorConn, Client(Outsider, GameRoom))
    /\ UNCHANGED <<game, out, assigned, projections, running, clients, rooms, mail,
                   svc, auth>>

(* player p sends an action the engine accepts *)
Play(p, action) ==
    /\ svc.games
    /\ ProcessAction(game, p, action).err = NoError
    /\ HandleGameAction(p, GameRoom, action, "none")

OverSelect ==
    \E p \in 1..MinPlayers :
       /\ svc.games
       /\ \E sel \in GameTeams(N, RequiredNow) : Play(p, SelectAction(sel))

OverVote ==
    \E p \in 1..MinPlayers, approve \in BOOLEAN :
       /\ svc.games
       /\ approve \/ game.CurrentRound <= MaxRejectRound
       /\ \A q \in 1..(p - 1) : MapHas(CurrentVotes, q)
       /\ CurrentVotes # NilMap =>
             \A q \in DOMAIN CurrentVotes[1] : CurrentVotes[1][q] = approve
       /\ Play(p, VoteAction(approve))

OverPerform ==
    \E p \in 1..MinPlayers, success \in BOOLEAN :
       /\ svc.games
       /\ game.CurrentQuest # NilQuest
       /\ Len(game.CurrentQuest[1].Results) < Len(game.CurrentQuest[1].SelectedPlayers)
       /\ p = game.CurrentQuest[1].SelectedPlayers[Len(game.CurrentQuest[1].Results) + 1]
       /\ Play(p, PerformAction(success))

OverAssassinate ==
    \E p \in 1..MinPlayers, target \in 1..MinPlayers :
       /\ svc.games
       /\ Play(p, AssassinateAction(target))

NextOver ==
    \/ Spectate \/ HubRegister \/ Welcome
    \/ OverSelect \/ OverVote \/ OverPerform \/ OverAssassinate

SpecOver == InitOver /\ [][NextOver]_vars

(* ------------------------------------------------------------------ *)
(* C34 *)
(* ------------------------------------------------------------------ *)
(* the action of this step has ended the game *)
GameEnds == Handling /\ svc.status = "playing" /\ svc'.status = "finished"

(* C34: when an action has ended the game and the handler has saved    *)
(* and broadcast the final state, s.games holds no engine for the room. *)
C34_RegistryEmptied ==
    [][GameEnds => ~svc'.games]_vars

(* ------------------------------------------------------------------ *)
(* The auth store of the frontend                                      *)
(* ------------------------------------------------------------------ *)
MaxAuthCalls == 3

AuthKinds == {"login", "register"}
AuthUsers == {"alice", "bob"}

(* response.data.error of a failed call: missing, or the server's text *)
ServerErrors == {Null, "User exists"}

DefaultError(kind) == IF kind = "login" THEN "Failed to login" ELSE "Failed to register"

(* the token the server issues for a user *)
TokenOf(user) == IF user = "alice" THEN "jwt-alice" ELSE "jwt-bob"

(* login / register up to the await: set({isLoading: true, error: null}) *)
AuthCall ==
    /\ auth.started < MaxAuthCalls
    /\ \E kind \in AuthKinds, user \in AuthUsers :
          auth' = [auth EXCEPT !.isLoading = TRUE, !.error = Null,
                               !.started = @ + 1,
                               !.calls = @ \cup {[id |-> auth.started + 1,
                                                  kind |-> kind, user |-> user]}]
    /\ out' = Result("call", Outsider, auth.started + 1, NoError, << >>)
    /\ UNCHANGED <<game, assigned, projections, netVars, svc>>

(* axios.post resolves: the rest of the try block *)
AuthResolve ==
    \E call \in auth.calls :
       /\ auth' = [auth EXCEPT !.user = call.user, !.token = TokenOf(call.user),
                               !.isAuthenticated = TRUE, !.isLoading = FALSE,
                               !.calls = @ \ {call}]
       /\ out' = Result(call.kind, Outsider, call, NoError, << >>)
       /\ UNCHANGED <<game, assigned, projections, netVars, svc>>

(* axios.post rejects: the catch block, which throws the error again *)
AuthReject ==
    \E call \in auth.calls, e \in ServerErrors :
       /\ auth' = [auth EXCEPT !.isLoading = FALSE,
                               !.error = IF e = Null THEN DefaultError(call.kind) ELSE e,
                               !.calls = @ \ {call}]
       /\ out' = Result(call.kind, Outsider, call, "thrown", e)
       /\ UNCHANGED <<game, assigned, projections, netVars, svc>>

Logout ==
    /\ auth.isAuthenticated
    /\ auth' = [auth EXCEPT !.user = Null, !.token = Null, !.isAuthenticated = FALSE]
    /\ out' = Result("logout", Outsider, << >>, NoError, << >>)
    /\ UNCHANGED <<game, assigned, projections, netVars, svc>>

NextAuth == AuthCall \/ AuthResolve \/ AuthReject \/ Logout

SpecAuth == InitHub /\ [][NextAuth]_vars

(* ------------------------------------------------------------------ *)
(* C37 *)
(* ------------------------------------------------------------------ *)
(* a login or register call ends in this step *)
AuthEnds == auth'.calls # auth.calls /\ auth'.started = auth.started

(* C37: when a login or register call succeeds the store holds the     *)
(* returned user and token, isAuthenticated is true, isLoading false   *)
(* and error null; when it fails error is the server's message or the  *)
(* default text, isLoading is false, user, token and isAuthenticated   *)
(* are as before, and the error is thrown to the caller.               *)
C37_AuthOutcome ==
    [][AuthEnds =>
          IF out'.err = NoError
          THEN /\ auth'.user = out'.arg.user
               /\ auth'.token = TokenOf(out'.arg.user)
               /\ auth'.isAuthenticated
               /\ ~auth'.isLoading
               /\ auth'.error = Null
          ELSE /\ auth'.error = (IF out'.json = Null THEN DefaultError(out'.arg.kind)
                                 ELSE out'.json)
               /\ ~auth'.isLoading
               /\ auth'.user = auth.user
               /\ auth'.token = auth.token
               /\ auth'.isAuthenticated = auth.isAuthenticated
               /\ out'.err = "thrown"]_vars
====
